---- MODULE Spec2Model ----
(***************************************************************************)
(* Deposit bot: the event poller with its seen-set (EventListener in       *)
(* blockchain.ts), the price oracle (PriceOracle), the deposit handler and *)
(* the admin commands (index.ts), the competitions (competition.ts) and    *)
(* the leaderboard accumulation (updateLeaderboard in config.ts).          *)
(*                                                                         *)
(* Specifications over one state:                                          *)
(*   Spec      the poller under short fetch windows over a small universe  *)
(*             of events (old / new, tracked / untracked, shared digests); *)
(*   SpecLive  the poller with the timer firing and every awaited call     *)
(*             ending;                                                     *)
(*   SpecTx    the poller under windows with two deposits of one           *)
(*             transaction;                                                *)
(*   SpecEvict the poller under full windows of fresh digests, so that the *)
(*             seen-set passes its cap and the cleanup runs;               *)
(*   SpecLB    overlapping updateLeaderboard calls;                        *)
(*   SpecBot   handleStakeEvent against competition start, end and reset;  *)
(*   SpecAdmin the admin commands /start and /addstake against competition *)
(*             end and reset;                                              *)
(*   SpecEnd   /resetlb beside a running competition end;                  *)
(*   SpecCron  the hourly check with every awaited call ending;            *)
(*   SpecWinners processCompetitionEnd over leaderboards of several        *)
(*             wallets;                                                    *)
(*   SpecAuth  the admin commands sent by admins and by other users;       *)
(*   SpecPool  the pool filter of handleEvent over address spellings;      *)
(*   SpecOracle calculateLPValue with the Redis cache, the reserve fetch   *)
(*             and the price API;                                          *)
(*   SpecFloor handleStakeEvent on the valuations of calculateLPValue, a   *)
(*             pool without LP supply included;                            *)
(*   SpecPipe  the poller handing its events to handleStakeEvent, past the *)
(*             cap of the seen-set.                                        *)
(***************************************************************************)
EXTENDS Integers, Sequences, FiniteSets, TLC

VARIABLES
    phase,          \* progress of start(): "constructed", "initializing", "running"
    botStartTime,   \* EventListener.botStartTime
    seenEvents,     \* EventListener.seenEvents: a JS Set, kept in insertion order
    isPolling,      \* EventListener.isPolling
    poll,           \* the pollEvents invocations that passed the guard, per slot
    fillerNext,     \* number of untracked-pool events the chain has produced so far
    lastOutcome,    \* how the last poll cycle ended: "none", "running", "empty", "done", "error"
    calls,          \* history: the events handed to onStakeCallback, in call order
    handed,         \* history: the events handed to handleEvent
    polledOld,      \* history: the pre-start events that an iteration of the loop of pollEvents reached
    failedCb,       \* history: the events whose onStakeCallback call threw
    returned,       \* history: how often the fetches of pollEvents returned TheDeposit (2 = twice or more)
    initFetched,    \* history: the events fetched by initializeSeenEvents
    cyc,            \* history: the poll cycle in flight (see NoCycle)
    loopSeen,       \* history: seenEvents at the end of the event loop of the last completed cycle
    evicted,        \* history: the emitted digests that a cleanup removed, one entry per removal
    leaderboard,    \* the leaderboard collection: a sequence of documents
    lbCall,         \* the updateLeaderboard calls in flight, per caller
    lbCalls,        \* number of updateLeaderboard calls started
    credited,       \* history: per wallet, the sum of the usdValues of the completed calls
    overlapped,     \* history: an updateLeaderboard call started while another was in flight
    prevRank,       \* history: per wallet, the rank its last call returned, 0 once another
                    \* wallet's total has changed since
    competitions,   \* the competitions collection: a sequence of documents
    deposits,       \* the deposits collection: a sequence of documents
    hs,             \* the handleStakeEvent invocation (the poller awaits one at a time)
    alerts,         \* history: the sendDepositAlert calls
    starter,        \* the /start commands being handled, per admin
    ender,          \* the competition end or leaderboard reset being handled
    adder,          \* the /addstake command being handled
    refused,        \* history: the admin commands answered with the refusal, as <<user, command>>
    filt,           \* the last application of isTargetPool: configuration, input, result
    redis,          \* the Redis cache: per key its value and its age, or NoEntry
    val,            \* the calculateLPValue call and its two getTokenPrice calls
    lost,           \* history: the digests whose handleStakeEvent failed on valuation or addDeposit
    resetter        \* a manualResetLeaderboard call running beside the end in `ender`

pollerVars == <<phase, botStartTime, seenEvents, isPolling, poll, fillerNext,
                lastOutcome, calls, handed, polledOld, failedCb, returned, initFetched, cyc,
                loopSeen, evicted>>

lbVars == <<leaderboard, lbCall, lbCalls, credited, overlapped, prevRank>>

botVars == <<competitions, deposits, hs, alerts, starter, ender, adder>>

oracleVars == <<redis, val>>

restVars == <<refused, filt, oracleVars, lost, resetter>>

vars == <<pollerVars, lbVars, botVars, restVars>>

(***************************************************************************)
(* Program constants                                                       *)
(***************************************************************************)
FETCH_LIMIT == 50
SEEN_CAP == 1000
SEEN_KEEP == 500
MIN_DEPOSIT_USD == 1
TOP_LIMIT == 10
PRIZES == <<200000, 75000, 50000, 20000, 10000>>

\* the TTLs of the cache entries, in seconds
RESERVES_TTL == 10
PRICE_TTL == 60

\* the time between the startTime and the endTime of a competition; the
\* clock of the competitions counts in units of CONFIG.COMPETITION_DURATION_DAYS days
COMPETITION_DURATION == 1

(***************************************************************************)
(* Bounds                                                                  *)
(***************************************************************************)
ClockAtConstruction == 10
MaxWindow == 2
MaxBursts == 22
MaxLbCalls == 3
NSlots == 2
MaxDeposits == 2
MaxCompetitions == 2
MaxPad == 1
MaxValuations == 2
MaxEntries == 6

Slots == 1..NSlots

(***************************************************************************)
(* Pool types are strings; they are modelled as sequences of characters.   *)
(***************************************************************************)
LP_VICTORY_SUI == <<"0", "x", "2", ":", "S", "V">>
LP_VICTORY_USDC == <<"0", "x", "2", ":", "V", "U">>
LP_BTC_VICTORY == <<"0", "x", "2", ":", "B", "V">>
LP_PADDED_VICTORY_SUI == <<"0", "x", "0", "2", ":", "S", "V">>
LP_OTHER == <<"0", "x", "2", ":", "S", "U">>
LP_FILLER == <<"0", "x", "9">>

DigitChars == {"0", "1", "2", "3", "4", "5", "6", "7", "8", "9"}
WordChars == DigitChars \cup {"x", "a", "S", "V", "U", "B", "_"}

\* type.replace(/0x/g, ''): every occurrence of "0x", scanning left to right
RECURSIVE Strip0x(_)
Strip0x(s) ==
    IF Len(s) = 0 THEN <<>>
    ELSE IF Len(s) >= 2 /\ s[1] = "0" /\ s[2] = "x"
         THEN Strip0x(SubSeq(s, 3, Len(s)))
         ELSE <<s[1]>> \o Strip0x(Tail(s))

\* length of the maximal run of word characters at the head of s
RECURSIVE WordRun(_)
WordRun(s) ==
    IF Len(s) = 0 \/ s[1] \notin WordChars THEN 0 ELSE 1 + WordRun(Tail(s))

\* number of leading "0" characters of s
RECURSIVE LeadingZeros(_)
LeadingZeros(s) ==
    IF Len(s) = 0 \/ s[1] # "0" THEN 0 ELSE 1 + LeadingZeros(Tail(s))

\* the replacement of one word by /\b0+(\d+)\b/ -> '$1': the pattern matches a
\* whole word of digits that starts with "0" and has at least two characters;
\* 0+ is greedy and leaves at least one digit to the group
StripWord(w) ==
    IF Len(w) >= 2 /\ w[1] = "0" /\ \A i \in 1..Len(w) : w[i] \in DigitChars
    THEN LET z == LeadingZeros(w)
             k == IF z = Len(w) THEN z - 1 ELSE z
         IN  SubSeq(w, k + 1, Len(w))
    ELSE w

\* type.replace(/\b0+(\d+)\b/g, '$1')
RECURSIVE StripZeros(_)
StripZeros(s) ==
    IF Len(s) = 0 THEN <<>>
    ELSE LET n == WordRun(s)
         IN  IF n = 0 THEN <<s[1]>> \o StripZeros(Tail(s))
             ELSE StripWord(SubSeq(s, 1, n)) \o StripZeros(SubSeq(s, n + 1, Len(s)))

normalizeType(type) == StripZeros(Strip0x(type))

normalizedVictorySUI == normalizeType(LP_VICTORY_SUI)
normalizedVictoryUSDC == normalizeType(LP_VICTORY_USDC)
normalizedBtcVictory == normalizeType(LP_BTC_VICTORY)

isTargetPool(poolType) ==
    LET normalizedPoolType == normalizeType(poolType)
    IN  \/ normalizedPoolType = normalizedVictorySUI
        \/ normalizedPoolType = normalizedVictoryUSDC
        \/ normalizedPoolType = normalizedBtcVictory

\* the lpType of a pair of the configuration:
\* `${CONTRACTS.PACKAGE_ID}::pair::LPCoin<${token0},${token1}>`
LpType(package, t0, t1) == package \o <<":", t0, t1>>

\* the token pairs of the three tracked pools
TrackedPairs == {<<"S", "V">>, <<"V", "U">>, <<"B", "V">>}

\* isTargetPool under a configuration whose PACKAGE_ID is package
IsTargetPoolWith(package, poolType) ==
    \E p \in TrackedPairs : normalizeType(poolType) = normalizeType(LpType(package, p[1], p[2]))

\* the hexadecimal digits of the package addresses, without padding
Addresses == {<<"2">>, <<"a", "2">>}

Zeros(n) == [i \in 1..n |-> "0"]

\* a textual form of an address: with or without the 0x prefix, zero-padded
AddressForm(addr, prefix, pad) == (IF prefix THEN <<"0", "x">> ELSE <<>>) \o Zeros(pad) \o addr

AddressForms == {AddressForm(addr, prefix, pad) : addr \in Addresses, prefix \in BOOLEAN, pad \in 0..MaxPad}

\* the token pairs of the pool types that events carry
EventPairs == TrackedPairs \cup {<<"S", "U">>}

(***************************************************************************)
(* The event feed                                                          *)
(***************************************************************************)
Ev(d, dt, p) == [txDigest |-> d, timestampMs |-> ClockAtConstruction + dt, pool_type |-> p]

\* the events of the small universe: two new deposits into tracked pools, one
\* tracked deposit stamped exactly at the start time, one deposit into another
\* pool, and an untracked-pool event of the transaction of the first deposit
SmallEvents ==
    { Ev(1, 1, LP_VICTORY_SUI),
      Ev(2, 2, LP_VICTORY_USDC),
      Ev(3, 0, LP_PADDED_VICTORY_SUI),
      Ev(4, 1, LP_OTHER),
      Ev(1, 1, LP_OTHER) }

FillerBase == 100

\* the k-th event of the untracked pools
Filler(k) == Ev(FillerBase + k, 1, LP_FILLER)

\* queryEvents returns its window in descending order
Descending(w) == \A i \in 1..(Len(w) - 1) : w[i].timestampMs >= w[i + 1].timestampMs

SeqsUpTo(S, n) == UNION {[1..k -> S] : k \in 0..n}

SmallWindows == {w \in SeqsUpTo(SmallEvents, MaxWindow) : Descending(w)}

\* n fresh filler events, newest first
FreshFiller(n) == [i \in 1..n |-> Filler(fillerNext + n + 1 - i)]

\* the deposit of the eviction scenario
TheDeposit == Ev(9, 1, LP_BTC_VICTORY)

\* windows of the eviction scenario: the one tracked deposit alone or twice,
\* or a full window of fresh untracked events while the chain has some left
EvictWindows ==
    { <<TheDeposit>>, <<TheDeposit, TheDeposit>> }
    \cup (IF fillerNext < MaxBursts * FETCH_LIMIT THEN {FreshFiller(FETCH_LIMIT)} ELSE {})

Min2(n) == IF n > 2 THEN 2 ELSE n

FillerIn(w) == Cardinality({i \in 1..Len(w) : w[i].txDigest > FillerBase})

(***************************************************************************)
(* Helpers of the seen-set and of the event loop                           *)
(***************************************************************************)
Range(s) == {s[i] : i \in 1..Len(s)}

\* The seen-set is a JS Set: it iterates in insertion order.  Its value is
\* the sequence of its digests in insertion order, written as the sequence
\* of its maximal runs [lo, hi] of consecutive digests inserted one after the
\* other (<<[lo |-> 5, hi |-> 7], [lo |-> 2, hi |-> 2]>> is 5, 6, 7, 2).
RunSize(r) == r.hi - r.lo + 1

\* Set.size
RECURSIVE Size(_)
Size(seen) == IF Len(seen) = 0 THEN 0 ELSE RunSize(Head(seen)) + Size(Tail(seen))

\* Set.has
Has(seen, d) == \E i \in 1..Len(seen) : seen[i].lo <= d /\ d <= seen[i].hi

\* Set.add: a value already present keeps its place
Add(seen, d) ==
    IF Has(seen, d) THEN seen
    ELSE IF Len(seen) > 0 /\ seen[Len(seen)].hi + 1 = d
         THEN [seen EXCEPT ![Len(seen)].hi = d]
         ELSE Append(seen, [lo |-> d, hi |-> d])

\* the seen-set without its k oldest digests
RECURSIVE DropOldest(_, _)
DropOldest(seen, k) ==
    IF k = 0 \/ Len(seen) = 0 THEN seen
    ELSE IF RunSize(Head(seen)) <= k
         THEN DropOldest(Tail(seen), k - RunSize(Head(seen)))
         ELSE <<[lo |-> Head(seen).lo + k, hi |-> Head(seen).hi]>> \o Tail(seen)

\* fault: the slice keeps every digest
SliceLastAll(seen, n) == seen

\* Array.from(seen).slice(-n)
SliceLast(seen, n) == IF Size(seen) <= n THEN seen ELSE DropOldest(seen, Size(seen) - n)

\* fault: the batch is walked in fetch order, newest first
ReverseOmitted(s) == s

\* Array.reverse
Reverse(s) == [i \in 1..Len(s) |-> s[Len(s) + 1 - i]]

\* fault: the gate lets an event stamped exactly at botStartTime through
IsOldStrict(e) == e.timestampMs < botStartTime

\* the startup gate of the loop
IsOld(e) == e.timestampMs <= botStartTime

\* fault: the digest is not recorded when the loop reaches it
MarkSeenOmitted(seen, d) == seen

\* the seen-set once an unseen digest reaches the loop
MarkSeen(seen, d) == Add(seen, d)

\* fault: the digest test never finds the digest
AlreadySeenNever(seen, d) == FALSE

\* the digest test of the loop
AlreadySeen(seen, d) == Has(seen, d)

\* fault: the cleanup already cuts a seen-set of exactly SEEN_CAP digests
CleanupAtCap(seen) == IF Size(seen) >= SEEN_CAP THEN SliceLast(seen, SEEN_KEEP) ELSE seen

\* the cleanup of the seen-set after the loop
Cleanup(seen) == IF Size(seen) > SEEN_CAP THEN SliceLast(seen, SEEN_KEEP) ELSE seen

\* One iteration of the for loop of pollEvents, on the event at position i
\* of the batch.  The state of the loop is the seen-set, the position of the
\* event handed to the callback (0 while there is none) and the events handed
\* to handleEvent.
Iteration(st, batch, i) ==
    LET e == batch[i]
        digest == e.txDigest
    IN  IF AlreadySeen(st.seen, digest)
        THEN st
        ELSE LET seen2 == MarkSeen(st.seen, digest)
             IN  IF IsOld(e)
                 THEN [st EXCEPT !.seen = seen2]
                 ELSE IF ~isTargetPool(e.pool_type)
                      THEN [seen |-> seen2, cur |-> 0, handed |-> st.handed \cup {e}]
                      ELSE [seen |-> seen2, cur |-> i, handed |-> st.handed \cup {e}]

\* the iterations from position i up to the first event whose callback is
\* awaited, or to the end of the batch
RECURSIVE Iterate(_, _, _)
Iterate(st, batch, i) ==
    IF i > Len(batch) \/ st.cur # 0 THEN st
    ELSE Iterate(Iteration(st, batch, i), batch, i + 1)

Advance(seen, batch, i, hnd) == Iterate([seen |-> seen, cur |-> 0, handed |-> hnd], batch, i)

\* history of a cycle in flight: the length of calls and the digests of the
\* batch that were in the seen-set when the fetch resolved, and whether a
\* tick was suppressed during the cycle
NoCycle == [base |-> 0, preSeen |-> {}, suppressed |-> FALSE]

IdlePoll == [pc |-> "idle", batch |-> <<>>, idx |-> 0]

\* an updateLeaderboard call: where it stands, its arguments, the totalUSD of
\* the document findOne returned (NoDoc if null, else the one-element sequence
\* of its totalUSD) and the rank it returned
NoDoc == <<>>

NoCall == [pc |-> "idle", wallet |-> "", usdValue |-> 0, competitionId |-> "",
           existing |-> NoDoc, rank |-> 0]

Wallets == {"w1", "w2"}

\* the usdValue handleStakeEvent passes on: at or above the floor
UsdValues == {1, 2}

\* the usdValue of an /addstake command: any number parseFloat yields
ManualUsdValues == {-1, 1, 2}

Competitions == {"comp_1"}

\* the callers of updateLeaderboard: handleStakeEvent and the /addstake command
Callers == {"handleStakeEvent", "addstake"}

UsdValuesOf(c) == IF c = "addstake" THEN ManualUsdValues ELSE UsdValues

\* the results of calculateLPValue
Valuations == {0, 1}

\* the ids createCompetition gives out, in order (comp_<Date.now()>)
CompIds == <<"comp_1", "comp_2", "comp_3">>

\* the competitionId of a deposit stored while no competition is active
TrackingOnly == "tracking_only"

\* getCurrentCompetition returned null; rank left undefined
NoComp == ""
NoRank == 0

\* a handleStakeEvent invocation: its event, the valuation, the competition
\* getCurrentCompetition returned and the rank updateLeaderboard returned
NoStake == [pc |-> "idle", wallet |-> "", usdValue |-> 0, competition |-> NoComp, rank |-> NoRank]

\* the admins whose /start commands can be in flight together
Admins == {"a1", "a2"}

\* CONFIG.ADMIN_USER_IDS, and the users who send commands
ADMIN_USER_IDS == Admins
Users == ADMIN_USER_IDS \cup {"u1"}

\* the commands that index.ts reserves to the admins
AdminCommands == {"/start", "/resetlb", "/addstake"}

\* fault: every user passes for an admin
isAdminAnyone(userId) == TRUE

\* isAdmin of telegram.ts
isAdmin(userId) == userId \in ADMIN_USER_IDS

\* a startNewCompetition call
NoStart == [pc |-> "idle", existing |-> NoComp]

\* a competition end (checkCompetitionEnd, stopCompetition) or a
\* manualResetLeaderboard: the user whose command it serves ("" for the cron
\* job), the competition it read and the winners it computed
NoEnd == [pc |-> "idle", from |-> "", kind |-> "", competitionId |-> NoComp, winners |-> <<>>]

\* an application of isTargetPool by handleEvent: the PACKAGE_ID of the
\* configuration, the address and the token pair of the pool type of the event
NoFilter == [pc |-> "idle", package |-> <<>>, address |-> <<>>, pair |-> <<>>]

\* the pools of PAIRS and the token types of CONTRACTS
Pools == {"VS", "VU", "BV"}
Tokens == {"SUI", "USDC", "VICTORY", "BTC"}

\* the keys of the Redis cache: `reserves:${pairId}` and `price:${symbol}`
ReservesKey(pool) == IF pool = "VS" THEN "reserves:VS"
                     ELSE IF pool = "VU" THEN "reserves:VU" ELSE "reserves:BV"
PriceKey(token) == IF token = "SUI" THEN "price:SUI"
                   ELSE IF token = "USDC" THEN "price:USDC"
                   ELSE IF token = "VICTORY" THEN "price:VICTORY" ELSE "price:BTC"
CacheKeys == {ReservesKey(pool) : pool \in Pools} \cup {PriceKey(token) : token \in Tokens}

\* a key that is absent or has expired; an entry holds its value, the
\* seconds since setEx stored it and the TTL setEx gave it
NoEntry == [value |-> <<>>, age |-> 0, ttl |-> 0]

\* no reserves read yet, no price resolved yet
NoReserves == [reserve0 |-> 0, reserve1 |-> 0, totalSupply |-> 0]
NoPrice == -1

\* a getTokenPrice call: where it stands, its token, how the price API call
\* ended ("" if there was none) and the price it resolved
NoTokenPrice == [pc |-> "idle", token |-> "", api |-> "", price |-> NoPrice]

\* the calculateLPValue call: where it stands, its arguments, the reserves
\* it read, its two getTokenPrice calls (token0, token1), its result and the
\* number of calls so far
NoValuation == [pc |-> "idle", pool |-> "", lpAmount |-> 0, reserves |-> NoReserves,
                prices |-> <<NoTokenPrice, NoTokenPrice>>, depositUSD |-> 0, n |-> 0]

\* a manualResetLeaderboard call: where it stands and the competition it read
NoReset == [pc |-> "idle", competitionId |-> NoComp]

\* an /addstake command and the user who sent it
NoAdd == [pc |-> "idle", from |-> "", wallet |-> "", usdValue |-> 0, competition |-> NoComp]

(***************************************************************************)
(* Initial state: the EventListener has been constructed                   *)
(***************************************************************************)
InitOther ==
    /\ phase = "constructed"
    /\ botStartTime = ClockAtConstruction
    /\ seenEvents = <<>>
    /\ isPolling = FALSE
    /\ poll = [s \in Slots |-> IdlePoll]
    /\ fillerNext = 0
    /\ lastOutcome = "none"
    /\ calls = <<>>
    /\ handed = {}
    /\ polledOld = {}
    /\ failedCb = {}
    /\ returned = 0
    /\ initFetched = {}
    /\ cyc = NoCycle
    /\ loopSeen = <<>>
    /\ evicted = <<>>
    /\ lbCall = [c \in Callers |-> NoCall]
    /\ lbCalls = 0
    /\ credited = [w \in Wallets |-> 0]
    /\ overlapped = FALSE
    /\ prevRank = [w \in Wallets |-> 0]
    /\ deposits = <<>>
    /\ hs = NoStake
    /\ alerts = <<>>
    /\ starter = [a \in Users |-> NoStart]
    /\ ender = NoEnd
    /\ adder = NoAdd
    /\ refused = {}
    /\ filt = NoFilter
    /\ lost = {}
    /\ resetter = NoReset
    /\ redis = [k \in CacheKeys |-> NoEntry]
    /\ val = NoValuation

\* the collections are empty
Init ==
    /\ InitOther
    /\ leaderboard = <<>>
    /\ competitions = <<>>

(***************************************************************************)
(* start() and initializeSeenEvents()                                      *)
(***************************************************************************)
\* start(onStake) up to the queryEvents call of initializeSeenEvents
Start ==
    /\ phase = "constructed"
    /\ phase' = "initializing"
    /\ UNCHANGED <<botStartTime, seenEvents, isPolling, poll, fillerNext,
                   lastOutcome, calls, handed, polledOld, failedCb, returned, initFetched, cyc, loopSeen, evicted, lbVars, botVars, restVars>>

RECURSIVE MarkTracked(_, _)
RECURSIVE MarkFetched(_, _)
\* fault: the start marks the digest of every fetched event, whatever its pool
MarkFetched(seen, w) ==
    IF Len(w) = 0 THEN seen
    ELSE MarkFetched(Add(seen, Head(w).txDigest), Tail(w))

\* the loop of initializeSeenEvents: the digests of the tracked-pool events
\* of the window are added in the order of the window
MarkTracked(seen, w) ==
    IF Len(w) = 0 THEN seen
    ELSE MarkTracked(IF isTargetPool(Head(w).pool_type) THEN Add(seen, Head(w).txDigest) ELSE seen,
                     Tail(w))

\* the fetch of initializeSeenEvents succeeded; setInterval is installed
InitializeSeenEventsOk(w) ==
    /\ phase = "initializing"
    /\ seenEvents' = MarkTracked(seenEvents, w)
    /\ initFetched' = Range(w)
    /\ fillerNext' = fillerNext + FillerIn(w)
    /\ phase' = "running"
    /\ UNCHANGED <<botStartTime, isPolling, poll, lastOutcome, calls, handed, polledOld, failedCb, returned,
                   cyc, loopSeen, evicted, lbVars, botVars, restVars>>

\* the fetch of initializeSeenEvents failed: caught and logged; setInterval
\* is installed
InitializeSeenEventsFail ==
    /\ phase = "initializing"
    /\ phase' = "running"
    /\ UNCHANGED <<botStartTime, seenEvents, isPolling, poll, fillerNext,
                   lastOutcome, calls, handed, polledOld, failedCb, returned, initFetched, cyc, loopSeen, evicted, lbVars, botVars, restVars>>

(***************************************************************************)
(* pollEvents()                                                            *)
(***************************************************************************)
\* fault: pollEvents without the re-entrancy guard
PollGuardOmitted == TRUE

\* the re-entrancy guard at the head of pollEvents
PollGuard == ~isPolling

FreeSlot == CHOOSE s \in Slots : poll[s].pc = "idle" /\ \A t \in Slots : poll[t].pc = "idle" => s <= t

\* a timer tick: pollEvents up to its queryEvents call, or its early return
Tick ==
    /\ phase = "running"
    /\ IF PollGuard /\ \E s \in Slots : poll[s].pc = "idle"
       THEN /\ isPolling' = TRUE
            /\ poll' = [poll EXCEPT ![FreeSlot] = [pc |-> "fetch", batch |-> <<>>, idx |-> 0]]
            /\ lastOutcome' = "running"
            /\ loopSeen' = <<>>
            /\ UNCHANGED cyc
       ELSE /\ cyc' = [cyc EXCEPT !.suppressed = TRUE]
            /\ UNCHANGED <<isPolling, poll, lastOutcome, loopSeen>>
    /\ UNCHANGED <<phase, botStartTime, seenEvents, fillerNext, calls, handed, polledOld, failedCb, returned, initFetched,
                   evicted, lbVars, botVars, restVars>>

\* the digests emitted so far that the cleanup of seen removes
EmittedDropped(seen) ==
    LET digests == [i \in 1..Len(calls) |-> calls[i].txDigest]
        kept == Cleanup(seen)
        firsts == SelectSeq([i \in 1..Len(calls) |-> i],
                            LAMBDA i : \A k \in 1..(i - 1) : digests[k] # digests[i])
        dropped == SelectSeq(firsts, LAMBDA i : Has(seen, digests[i]) /\ ~Has(kept, digests[i]))
    IN  [j \in 1..Len(dropped) |-> digests[dropped[j]]]

\* the loop of slot s goes on from position i; at the end of the batch the
\* cleanup runs and the finally block releases the guard
RunLoop(s, batch, i, c) ==
    \E r \in {Advance(seenEvents, batch, i, handed)} :
        /\ handed' = r.handed
        /\ polledOld' = polledOld \cup
                {e \in {batch[k] : k \in i..(IF r.cur # 0 THEN r.cur ELSE Len(batch))} : IsOld(e)}
        /\ IF r.cur # 0
           THEN /\ seenEvents' = r.seen
                /\ poll' = [poll EXCEPT ![s] = [pc |-> "callback", batch |-> batch, idx |-> r.cur]]
                /\ calls' = Append(calls, batch[r.cur])
                /\ cyc' = c
                /\ UNCHANGED <<isPolling, lastOutcome, loopSeen, evicted>>
           ELSE /\ loopSeen' = r.seen
                /\ seenEvents' = Cleanup(r.seen)
                /\ evicted' = evicted \o EmittedDropped(r.seen)
                /\ poll' = [poll EXCEPT ![s] = IdlePoll]
                /\ cyc' = NoCycle
                /\ isPolling' = FALSE
                /\ lastOutcome' = "done"
                /\ UNCHANGED calls

\* queryEvents of pollEvents resolved with window w
PollEventsFetched(s, w) ==
    /\ poll[s].pc = "fetch"
    /\ fillerNext' = fillerNext + FillerIn(w)
    /\ returned' = Min2(returned + Cardinality({i \in 1..Len(w) : w[i] = TheDeposit}))
    /\ IF Len(w) = 0
       THEN /\ isPolling' = FALSE
            /\ poll' = [poll EXCEPT ![s] = IdlePoll]
            /\ lastOutcome' = "empty"
            /\ cyc' = NoCycle
            /\ UNCHANGED <<seenEvents, calls, handed, polledOld, loopSeen, evicted>>
       ELSE \E batch \in {Reverse(w)} :
                RunLoop(s, batch, 1,
                        [cyc EXCEPT !.base = Len(calls),
                                    !.preSeen = {d \in {batch[i].txDigest : i \in 1..Len(batch)} :
                                                    Has(seenEvents, d)}])
    /\ UNCHANGED <<phase, botStartTime, failedCb, initFetched, lbVars, botVars, restVars>>

\* fault: a failed fetch leaves isPolling set
PollEventsFetchErrorStuck(s) ==
    /\ poll[s].pc = "fetch"
    /\ poll' = [poll EXCEPT ![s] = IdlePoll]
    /\ lastOutcome' = "error"
    /\ cyc' = NoCycle
    /\ UNCHANGED <<phase, botStartTime, seenEvents, isPolling, fillerNext, calls, handed, polledOld,
                   failedCb, returned, initFetched, loopSeen, evicted, lbVars, botVars, restVars>>

\* queryEvents of pollEvents rejected: catch, then finally
PollEventsFetchError(s) ==
    /\ poll[s].pc = "fetch"
    /\ poll' = [poll EXCEPT ![s] = IdlePoll]
    /\ isPolling' = FALSE
    /\ lastOutcome' = "error"
    /\ cyc' = NoCycle
    /\ UNCHANGED <<phase, botStartTime, seenEvents, fillerNext, calls, handed, polledOld, failedCb, returned,
                   initFetched, loopSeen, evicted, lbVars, botVars, restVars>>

\* the awaited onStakeCallback returned: handleEvent returns true, the loop goes on
HandleEventReturn(s) ==
    /\ poll[s].pc = "callback"
    /\ RunLoop(s, poll[s].batch, poll[s].idx + 1, cyc)
    /\ UNCHANGED <<phase, botStartTime, fillerNext, failedCb, returned, initFetched, lbVars, botVars, restVars>>

\* fault: handleEvent lets the exception escape; the catch of pollEvents ends
\* the cycle
HandleEventRethrow(s) ==
    /\ poll[s].pc = "callback"
    /\ failedCb' = failedCb \cup {poll[s].batch[poll[s].idx]}
    /\ poll' = [poll EXCEPT ![s] = IdlePoll]
    /\ isPolling' = FALSE
    /\ lastOutcome' = "error"
    /\ cyc' = NoCycle
    /\ UNCHANGED <<phase, botStartTime, seenEvents, fillerNext, calls, handed, polledOld, returned,
                   initFetched, loopSeen, evicted, lbVars, botVars, restVars>>

\* the try block of handleEvent threw: caught there, handleEvent returns
\* false, the loop goes on
HandleEventCatch(s) ==
    /\ poll[s].pc = "callback"
    /\ failedCb' = failedCb \cup {poll[s].batch[poll[s].idx]}
    /\ RunLoop(s, poll[s].batch, poll[s].idx + 1, cyc)
    /\ UNCHANGED <<phase, botStartTime, fillerNext, returned, initFetched, lbVars, botVars, restVars>>

(***************************************************************************)
(* Specifications of the poller                                            *)
(***************************************************************************)
Next ==
    \/ Start
    \/ \E w \in SmallWindows : InitializeSeenEventsOk(w)
    \/ InitializeSeenEventsFail
    \/ Tick
    \/ \E s \in Slots, w \in SmallWindows : PollEventsFetched(s, w)
    \/ \E s \in Slots : PollEventsFetchError(s)
    \/ \E s \in Slots : HandleEventReturn(s)
    \/ \E s \in Slots : HandleEventCatch(s)

Spec == Init /\ [][Next]_vars

\* the windows of the progress check: empty, one event, two deposits
LiveWindows ==
    {<<>>} \cup {<<e>> : e \in SmallEvents}
           \cup {<<Ev(2, 2, LP_VICTORY_USDC), Ev(1, 1, LP_VICTORY_SUI)>>}

NextLive ==
    \/ Start
    \/ \E w \in LiveWindows : InitializeSeenEventsOk(w)
    \/ InitializeSeenEventsFail
    \/ Tick
    \/ \E s \in Slots, w \in LiveWindows : PollEventsFetched(s, w)
    \/ \E s \in Slots : PollEventsFetchError(s)
    \/ \E s \in Slots : HandleEventReturn(s)
    \/ \E s \in Slots : HandleEventCatch(s)

\* setInterval keeps firing, every queryEvents call resolves or rejects, and
\* every awaited callback returns or throws
LiveFairness ==
    /\ WF_vars(Tick)
    /\ \A s \in Slots :
            /\ WF_vars((\E w \in LiveWindows : PollEventsFetched(s, w)) \/ PollEventsFetchError(s))
            /\ WF_vars(HandleEventReturn(s) \/ HandleEventCatch(s))

SpecLive == Init /\ [][NextLive]_vars /\ LiveFairness

\* windows with the two deposits of one transaction (one digest, two pools)
TxWindows ==
    { <<Ev(1, 1, LP_VICTORY_USDC), Ev(1, 1, LP_VICTORY_SUI)>>,
      <<Ev(1, 1, LP_VICTORY_SUI)>>,
      <<Ev(2, 2, LP_VICTORY_USDC), Ev(1, 1, LP_VICTORY_USDC), Ev(1, 1, LP_VICTORY_SUI)>>,
      <<Ev(3, 0, LP_PADDED_VICTORY_SUI)>> }

NextTx ==
    \/ Start
    \/ \E w \in TxWindows : InitializeSeenEventsOk(w)
    \/ InitializeSeenEventsFail
    \/ Tick
    \/ \E s \in Slots, w \in TxWindows : PollEventsFetched(s, w)
    \/ \E s \in Slots : PollEventsFetchError(s)
    \/ \E s \in Slots : HandleEventReturn(s)
    \/ \E s \in Slots : HandleEventCatch(s)

SpecTx == Init /\ [][NextTx]_vars

NextEvict ==
    \/ Start
    \/ \E w \in EvictWindows : InitializeSeenEventsOk(w)
    \/ InitializeSeenEventsFail
    \/ Tick
    \/ \E s \in Slots, w \in EvictWindows : PollEventsFetched(s, w)
    \/ \E s \in Slots : PollEventsFetchError(s)
    \/ \E s \in Slots : HandleEventReturn(s)
    \/ \E s \in Slots : HandleEventCatch(s)

SpecEvict == Init /\ [][NextEvict]_vars

(***************************************************************************)
(* updateLeaderboard()                                                     *)
(***************************************************************************)
Matches(doc, wallet, competitionId) == doc.wallet = wallet /\ doc.competitionId = competitionId

\* the position of the first document matching the filter, 0 if there is none
FirstMatch(col, wallet, competitionId) ==
    IF \E i \in 1..Len(col) : Matches(col[i], wallet, competitionId)
    THEN CHOOSE i \in 1..Len(col) :
            /\ Matches(col[i], wallet, competitionId)
            /\ \A k \in 1..(i - 1) : ~Matches(col[k], wallet, competitionId)
    ELSE 0

\* the two non-finite results of the number arithmetic of JavaScript; every
\* other number of the model is finite and lies strictly between them
Infinity == 2147483647
NaN == -2147483647
IsFinite(x) == x \notin {Infinity, NaN}

\* a + b, a / b, a * b and a < b on numbers: NaN absorbs, x / 0 is Infinity
\* (NaN for 0 / 0), 0 * Infinity is NaN, a comparison with NaN is false. The
\* operands of the model are never below 0 where Infinity is involved.
JsAdd(a, b) ==
    IF NaN \in {a, b} THEN NaN ELSE IF Infinity \in {a, b} THEN Infinity ELSE a + b
JsDiv(a, b) ==
    IF NaN \in {a, b} THEN NaN
    ELSE IF b = 0 THEN (IF a = 0 THEN NaN ELSE Infinity)
    ELSE IF a = Infinity THEN (IF b = Infinity THEN NaN ELSE Infinity)
    ELSE IF b = Infinity THEN 0
    ELSE a \div b
JsMul(a, b) ==
    IF NaN \in {a, b} THEN NaN
    ELSE IF Infinity \in {a, b} THEN (IF 0 \in {a, b} THEN NaN ELSE Infinity)
    ELSE a * b
JsLess(a, b) == NaN \notin {a, b} /\ a < b

\* fault: the write stores the usdValue of the call instead of adding it
NewTotalOverwrite(existing, usdValue) == usdValue

\* fault: the write subtracts the usdValue of the call
NewTotalSubtract(existing, usdValue) == IF existing # NoDoc THEN existing[1] - usdValue ELSE usdValue

\* the total that the write of a call stores
NewTotal(existing, usdValue) == IF existing # NoDoc THEN JsAdd(existing[1], usdValue) ELSE usdValue

\* updateLeaderboard is called by c; findOne resolves
FindOne(c, wallet, usdValue, competitionId) ==
    /\ lbCall[c].pc \in {"idle", "done"}
    /\ lbCalls < MaxLbCalls
    /\ lbCalls' = lbCalls + 1
    /\ overlapped' = (overlapped \/ \E o \in Callers \ {c} : lbCall[o].pc \in {"found", "written"})
    /\ LET i == FirstMatch(leaderboard, wallet, competitionId)
       IN  lbCall' = [lbCall EXCEPT ![c] =
                [pc |-> "found", wallet |-> wallet, usdValue |-> usdValue,
                 competitionId |-> competitionId,
                 existing |-> IF i = 0 THEN NoDoc ELSE <<leaderboard[i].totalUSD>>,
                 rank |-> 0]]
    /\ UNCHANGED <<leaderboard, credited, prevRank, pollerVars, restVars>>

\* updateLeaderboard on its own, with any arguments its caller can pass
UpdateLeaderboardFind(c, wallet, usdValue, competitionId) ==
    /\ FindOne(c, wallet, usdValue, competitionId)
    /\ UNCHANGED botVars

\* updateOne with $set and $push if findOne returned a document, else insertOne
UpdateLeaderboardWrite(c) ==
    /\ lbCall[c].pc = "found"
    /\ LET call == lbCall[c]
           i == FirstMatch(leaderboard, call.wallet, call.competitionId)
       IN  IF call.existing # NoDoc
           THEN leaderboard' =
                    IF i = 0 THEN leaderboard
                    ELSE [leaderboard EXCEPT ![i] =
                            [@ EXCEPT !.totalUSD = NewTotal(call.existing, call.usdValue),
                                      !.deposits = Append(@, call.usdValue)]]
           ELSE leaderboard' = Append(leaderboard,
                    [wallet |-> call.wallet, totalUSD |-> call.usdValue,
                     deposits |-> <<call.usdValue>>, competitionId |-> call.competitionId])
    /\ lbCall' = [lbCall EXCEPT ![c].pc = "written"]
    /\ credited' = [credited EXCEPT ![lbCall[c].wallet] = JsAdd(@, lbCall[c].usdValue)]
    /\ prevRank' = [w \in Wallets |-> IF w = lbCall[c].wallet THEN prevRank[w] ELSE 0]
    /\ UNCHANGED <<lbCalls, overlapped, pollerVars, botVars, restVars>>

\* fault: countDocuments with $gte, so that an equal total counts as ahead
UpdateLeaderboardCountTies(c) ==
    /\ lbCall[c].pc = "written"
    /\ LET call == lbCall[c]
           total == NewTotal(call.existing, call.usdValue)
           rank == Cardinality({i \in 1..Len(leaderboard) :
                        /\ leaderboard[i].competitionId = call.competitionId
                        /\ leaderboard[i].wallet # call.wallet
                        /\ leaderboard[i].totalUSD >= total})
       IN  /\ lbCall' = [lbCall EXCEPT ![c].pc = "done", ![c].rank = rank + 1]
           /\ prevRank' = [prevRank EXCEPT ![call.wallet] = rank + 1]
    /\ UNCHANGED <<leaderboard, lbCalls, credited, overlapped, pollerVars, botVars, restVars>>

\* countDocuments resolves; updateLeaderboard returns rank + 1
UpdateLeaderboardCount(c) ==
    /\ lbCall[c].pc = "written"
    /\ LET call == lbCall[c]
           total == NewTotal(call.existing, call.usdValue)
           rank == Cardinality({i \in 1..Len(leaderboard) :
                        /\ leaderboard[i].competitionId = call.competitionId
                        /\ leaderboard[i].totalUSD > total})
       IN  /\ lbCall' = [lbCall EXCEPT ![c].pc = "done", ![c].rank = rank + 1]
           /\ prevRank' = [prevRank EXCEPT ![call.wallet] = rank + 1]
    /\ UNCHANGED <<leaderboard, lbCalls, credited, overlapped, pollerVars, botVars, restVars>>

NextLB ==
    \/ \E c \in Callers, w \in Wallets, k \in Competitions : \E u \in UsdValuesOf(c) :
            UpdateLeaderboardFind(c, w, u, k)
    \/ \E c \in Callers : UpdateLeaderboardWrite(c)
    \/ \E c \in Callers : UpdateLeaderboardCount(c)

SpecLB == Init /\ [][NextLB]_vars

(***************************************************************************)
(* The deposit pipeline and the competition lifecycle                      *)
(***************************************************************************)
\* getCurrentCompetition: findOne({ status: 'ACTIVE' })
ActiveCompetitions == {i \in 1..Len(competitions) : competitions[i].status = "ACTIVE"}

CurrentCompetition ==
    IF ActiveCompetitions = {} THEN NoComp
    ELSE competitions[CHOOSE i \in ActiveCompetitions : \A j \in ActiveCompetitions : i <= j].competitionId

\* fault: a valuation equal to the floor is dropped too
BelowFloorInclusive(usdValue) == usdValue <= MIN_DEPOSIT_USD

\* the floor of handleStakeEvent
BelowFloor(usdValue) == JsLess(usdValue, MIN_DEPOSIT_USD)

\* handleStakeEvent is called with a deposit of wallet w; calculateLPValue
\* resolves with u; the deposit is dropped if u is below the floor
HandleStakeEventValued(w, u) ==
    /\ hs.pc \in {"idle", "skipped", "done", "failed"}
    /\ Len(deposits) < MaxDeposits
    /\ hs' = [pc |-> IF BelowFloor(u) THEN "skipped" ELSE "getcomp",
              wallet |-> w, usdValue |-> u, competition |-> NoComp, rank |-> NoRank]
    /\ UNCHANGED <<competitions, deposits, alerts, starter, ender, adder, lbVars, pollerVars, restVars>>

\* getCurrentCompetition of handleStakeEvent resolves
HandleStakeEventGetCompetition ==
    /\ hs.pc = "getcomp"
    /\ hs' = [hs EXCEPT !.pc = "store", !.competition = CurrentCompetition]
    /\ UNCHANGED <<competitions, deposits, alerts, starter, ender, adder, lbVars, pollerVars, restVars>>

\* fault: updateLeaderboard is invoked whether or not a competition was read
HandleStakeEventAddDepositAlwaysRank ==
    /\ hs.pc = "store"
    /\ deposits' = Append(deposits,
            [wallet |-> hs.wallet, usdValue |-> hs.usdValue,
             competitionId |-> IF hs.competition = NoComp THEN TrackingOnly ELSE hs.competition])
    /\ hs' = [hs EXCEPT !.pc = "rank"]
    /\ UNCHANGED <<competitions, alerts, starter, ender, adder, lbVars, pollerVars, restVars>>

\* addDeposit resolves; updateLeaderboard is invoked if a competition was read
HandleStakeEventAddDeposit ==
    /\ hs.pc = "store"
    /\ deposits' = Append(deposits,
            [wallet |-> hs.wallet, usdValue |-> hs.usdValue,
             competitionId |-> IF hs.competition = NoComp THEN TrackingOnly ELSE hs.competition])
    /\ hs' = [hs EXCEPT !.pc = IF hs.competition = NoComp THEN "alert" ELSE "rank"]
    /\ UNCHANGED <<competitions, alerts, starter, ender, adder, lbVars, pollerVars, restVars>>

\* findOne of the updateLeaderboard call of handleStakeEvent resolves
HandleStakeEventUpdateLeaderboard ==
    /\ hs.pc = "rank"
    /\ FindOne("handleStakeEvent", hs.wallet, hs.usdValue, hs.competition)
    /\ hs' = [hs EXCEPT !.pc = "ranking"]
    /\ UNCHANGED <<competitions, deposits, alerts, starter, ender, adder>>

\* updateLeaderboard has returned the rank to handleStakeEvent
HandleStakeEventRanked ==
    /\ hs.pc = "ranking"
    /\ lbCall["handleStakeEvent"].pc = "done"
    /\ hs' = [hs EXCEPT !.pc = "alert", !.rank = lbCall["handleStakeEvent"].rank]
    /\ UNCHANGED <<competitions, deposits, alerts, starter, ender, adder, lbVars, pollerVars, restVars>>

\* fault: the alert is sent without the rank
HandleStakeEventAlertNoRank ==
    /\ hs.pc = "alert"
    /\ alerts' = Append(alerts, [wallet |-> hs.wallet, usdValue |-> hs.usdValue, rank |-> NoRank])
    /\ hs' = [NoStake EXCEPT !.pc = "done"]
    /\ UNCHANGED <<competitions, deposits, starter, ender, adder, lbVars, pollerVars, restVars>>

\* sendDepositAlert resolves; handleStakeEvent returns
HandleStakeEventAlert ==
    /\ hs.pc = "alert"
    /\ alerts' = Append(alerts, [wallet |-> hs.wallet, usdValue |-> hs.usdValue, rank |-> hs.rank])
    /\ hs' = [NoStake EXCEPT !.pc = "done"]
    /\ UNCHANGED <<competitions, deposits, starter, ender, adder, lbVars, pollerVars, restVars>>

\* an awaited call of handleStakeEvent rejects: caught and logged
HandleStakeEventCatch ==
    /\ \/ hs.pc \in {"getcomp", "store", "rank", "alert"}
       \/ hs.pc = "ranking" /\ lbCall["handleStakeEvent"].pc \in {"found", "written"}
    /\ hs' = [NoStake EXCEPT !.pc = "failed"]
    /\ lbCall' = IF hs.pc = "ranking" THEN [lbCall EXCEPT !["handleStakeEvent"].pc = "idle"] ELSE lbCall
    /\ UNCHANGED <<competitions, deposits, alerts, starter, ender, adder, leaderboard, lbCalls,
                   credited, overlapped, prevRank, pollerVars, restVars>>

\* /start by admin a: getCurrentCompetition of startNewCompetition resolves
StartNewCompetitionGet(a) ==
    /\ starter[a].pc = "idle"
    /\ Len(competitions) < MaxCompetitions
    /\ starter' = [starter EXCEPT ![a] =
            IF CurrentCompetition = NoComp THEN [pc |-> "create", existing |-> NoComp]
            ELSE NoStart]
    /\ UNCHANGED <<competitions, deposits, hs, alerts, ender, adder, lbVars, pollerVars, restVars>>

\* createCompetition: insertOne of an ACTIVE competition whose endTime lies
\* COMPETITION_DURATION ahead; the document holds the time left until its
\* endTime (endTime - now)
CreateCompetition(a) ==
    /\ starter[a].pc = "create"
    /\ Len(competitions) < Len(CompIds)
    /\ competitions' = Append(competitions,
            [competitionId |-> CompIds[Len(competitions) + 1], status |-> "ACTIVE",
             endsIn |-> COMPETITION_DURATION, winners |-> <<>>])
    /\ starter' = [starter EXCEPT ![a].pc = "idle"]
    /\ UNCHANGED <<deposits, hs, alerts, ender, adder, lbVars, pollerVars, restVars>>

\* the entries of competition k
CompetitionEntries(k) == {i \in 1..Len(leaderboard) : leaderboard[i].competitionId = k}

\* getTopLeaderboard(k, limit): find, sort by totalUSD descending, limit; the
\* order among equal totals is left to the database
TopLeaderboard(k, limit) ==
    LET n == IF Cardinality(CompetitionEntries(k)) < limit
             THEN Cardinality(CompetitionEntries(k)) ELSE limit
    IN  {q \in [1..n -> CompetitionEntries(k)] :
            /\ \A i, j \in 1..n : i < j =>
                    q[i] # q[j] /\ leaderboard[q[i]].totalUSD >= leaderboard[q[j]].totalUSD
            /\ \A i \in 1..n : \A x \in CompetitionEntries(k) \ {q[j] : j \in 1..n} :
                    leaderboard[q[i]].totalUSD >= leaderboard[x].totalUSD}

\* PRIZES[rank], undefined beyond the table
NoPrize == -1
Prize(rank) == IF rank \in DOMAIN PRIZES THEN PRIZES[rank] ELSE NoPrize

\* the winners of processCompetitionEnd for the documents at positions q
Winners(q) ==
    [i \in 1..Len(q) |-> [rank |-> i, wallet |-> leaderboard[q[i]].wallet,
                          totalUSD |-> leaderboard[q[i]].totalUSD, prize |-> Prize(i)]]

EndKinds == {"check", "stop", "reset"}

\* time passes: the endTime of every ACTIVE competition comes one unit
\* closer (the endTime of an ENDED competition is not read any more)
TimePasses ==
    /\ \E i \in ActiveCompetitions : competitions[i].endsIn > 0
    /\ competitions' = [i \in 1..Len(competitions) |->
            IF competitions[i].status = "ACTIVE" /\ competitions[i].endsIn > 0
            THEN [competitions[i] EXCEPT !.endsIn = @ - 1]
            ELSE competitions[i]]
    /\ UNCHANGED <<deposits, hs, alerts, starter, ender, adder, lbVars, pollerVars, restVars>>

\* now >= competition.endTime for the competition getCurrentCompetition returns
Due ==
    /\ ActiveCompetitions # {}
    /\ competitions[CHOOSE i \in ActiveCompetitions : \A j \in ActiveCompetitions : i <= j].endsIn = 0

\* the user whose command starts an end of kind kind in the pipeline
\* specifications: an admin for /resetlb, none for the cron job
EndFrom(kind) == IF kind = "reset" THEN "a1" ELSE ""

\* checkCompetitionEnd, stopCompetition or manualResetLeaderboard:
\* getCurrentCompetition resolves; checkCompetitionEnd returns unless
\* now >= endTime
EndGetCompetition(from, kind) ==
    /\ ender.pc = "idle"
    /\ ender' = IF CurrentCompetition = NoComp \/ (kind = "check" /\ ~Due)
                THEN NoEnd
                ELSE [pc |-> IF kind = "reset" THEN "clear" ELSE "top", from |-> from, kind |-> kind,
                      competitionId |-> CurrentCompetition, winners |-> <<>>]
    /\ UNCHANGED <<competitions, deposits, hs, alerts, starter, adder, lbVars, pollerVars, restVars>>

\* processCompetitionEnd: getTopLeaderboard resolves
ProcessCompetitionEndTop ==
    /\ ender.pc = "top"
    /\ \E q \in TopLeaderboard(ender.competitionId, TOP_LIMIT) :
            ender' = [ender EXCEPT !.pc = "end", !.winners = Winners(q)]
    /\ UNCHANGED <<competitions, deposits, hs, alerts, starter, adder, lbVars, pollerVars, restVars>>

\* endCompetition: updateOne sets the status ENDED and the winners (the time
\* left of an ENDED competition is kept at 0: its endTime is not read again)
EndCompetition ==
    /\ ender.pc = "end"
    /\ competitions' = [i \in 1..Len(competitions) |->
            IF /\ competitions[i].competitionId = ender.competitionId
               /\ \A j \in 1..(i - 1) : competitions[j].competitionId # ender.competitionId
            THEN [competitions[i] EXCEPT !.status = "ENDED", !.winners = ender.winners, !.endsIn = 0]
            ELSE competitions[i]]
    /\ ender' = IF ender.kind = "reset" THEN NoEnd
                ELSE [ender EXCEPT !.pc = "announce"]
    /\ UNCHANGED <<deposits, hs, alerts, starter, adder, lbVars, pollerVars, restVars>>

\* processCompetitionEnd: the CSV export, the announcement and the document
\* have been sent
ProcessCompetitionEndAnnounce ==
    /\ ender.pc = "announce"
    /\ ender' = [ender EXCEPT !.pc = "clear"]
    /\ UNCHANGED <<competitions, deposits, hs, alerts, starter, adder, lbVars, pollerVars, restVars>>

\* processCompetitionEnd: the export or one of the sends rejects, the
\* leaderboard is not cleared
ProcessCompetitionEndThrow ==
    /\ ender.pc = "announce"
    /\ ender' = NoEnd
    /\ UNCHANGED <<competitions, deposits, hs, alerts, starter, adder, lbVars, pollerVars, restVars>>

\* the leaderboard once deleteMany({ competitionId }) has run
DeleteMany(col, competitionId) == SelectSeq(col, LAMBDA doc : doc.competitionId # competitionId)

\* fault: the reset deletes the deposits of the competition as well
ClearLeaderboardAndDeposits ==
    /\ ender.pc = "clear"
    /\ leaderboard' = DeleteMany(leaderboard, ender.competitionId)
    /\ deposits' = DeleteMany(deposits, ender.competitionId)
    /\ prevRank' = [w \in Wallets |-> 0]
    /\ ender' = IF ender.kind = "reset" THEN [ender EXCEPT !.pc = "end"]
                ELSE NoEnd
    /\ UNCHANGED <<competitions, hs, alerts, starter, adder, lbCall, lbCalls, credited,
                   overlapped, pollerVars, restVars>>

\* clearLeaderboard resolves
ClearLeaderboard ==
    /\ ender.pc = "clear"
    /\ leaderboard' = DeleteMany(leaderboard, ender.competitionId)
    /\ prevRank' = [w \in Wallets |-> 0]
    /\ ender' = IF ender.kind = "reset" THEN [ender EXCEPT !.pc = "end"]
                ELSE NoEnd
    /\ UNCHANGED <<competitions, deposits, hs, alerts, starter, adder, lbCall, lbCalls, credited,
                   overlapped, pollerVars, restVars>>

\* /addstake wallet pool usdValue: getCurrentCompetition resolves;
\* updateLeaderboard is invoked if there is a competition
AddstakeGetCompetition(from, w, u) ==
    /\ adder.pc = "idle"
    /\ lbCalls < MaxLbCalls
    /\ adder' = IF CurrentCompetition = NoComp THEN NoAdd
                ELSE [pc |-> "rank", from |-> from, wallet |-> w, usdValue |-> u,
                      competition |-> CurrentCompetition]
    /\ UNCHANGED <<competitions, deposits, hs, alerts, starter, ender, lbVars, pollerVars, restVars>>

\* findOne of the updateLeaderboard call of /addstake resolves
AddstakeUpdateLeaderboard ==
    /\ adder.pc = "rank"
    /\ FindOne("addstake", adder.wallet, adder.usdValue, adder.competition)
    /\ adder' = [adder EXCEPT !.pc = "ranking"]
    /\ UNCHANGED <<competitions, deposits, hs, alerts, starter, ender>>

\* updateLeaderboard has returned; /addstake replies
AddstakeReply ==
    /\ adder.pc = "ranking"
    /\ lbCall["addstake"].pc = "done"
    /\ adder' = NoAdd
    /\ UNCHANGED <<competitions, deposits, hs, alerts, starter, ender, lbVars, pollerVars, restVars>>

\* the wallets and the /addstake value of the pipeline specifications
BotWallets == {"w1"}
AdminUsdValues == {2}

\* the deposit handler against the start and the end of competitions
NextBot ==
    \/ \E w \in BotWallets, u \in Valuations : HandleStakeEventValued(w, u)
    \/ HandleStakeEventGetCompetition
    \/ HandleStakeEventAddDeposit
    \/ HandleStakeEventUpdateLeaderboard
    \/ HandleStakeEventRanked
    \/ HandleStakeEventAlert
    \/ HandleStakeEventCatch
    \/ StartNewCompetitionGet("a1")
    \/ CreateCompetition("a1")
    \/ TimePasses
    \/ \E kind \in EndKinds : EndGetCompetition(EndFrom(kind), kind)
    \/ ProcessCompetitionEndTop
    \/ EndCompetition
    \/ ProcessCompetitionEndAnnounce
    \/ ProcessCompetitionEndThrow
    \/ ClearLeaderboard
    \/ UpdateLeaderboardWrite("handleStakeEvent")
    \/ UpdateLeaderboardCount("handleStakeEvent")

SpecBot == Init /\ [][NextBot]_vars

\* the admin commands against each other and against the end of competitions
NextAdmin ==
    \/ \E a \in Admins : StartNewCompetitionGet(a)
    \/ \E a \in Admins : CreateCompetition(a)
    \/ TimePasses
    \/ \E kind \in EndKinds : EndGetCompetition(EndFrom(kind), kind)
    \/ ProcessCompetitionEndTop
    \/ EndCompetition
    \/ ProcessCompetitionEndAnnounce
    \/ ProcessCompetitionEndThrow
    \/ ClearLeaderboard
    \/ \E w \in BotWallets, u \in AdminUsdValues : AddstakeGetCompetition("a1", w, u)
    \/ AddstakeUpdateLeaderboard
    \/ AddstakeReply
    \/ UpdateLeaderboardWrite("addstake")
    \/ UpdateLeaderboardCount("addstake")

SpecAdmin == Init /\ [][NextAdmin]_vars

(***************************************************************************)
(* /resetlb while checkCompetitionEnd or stopCompetition is running        *)
(***************************************************************************)
\* manualResetLeaderboard: getCurrentCompetition resolves
ManualResetLeaderboardGet ==
    /\ resetter.pc = "idle"
    /\ resetter' = IF CurrentCompetition = NoComp THEN NoReset
                   ELSE [pc |-> "clear", competitionId |-> CurrentCompetition]
    /\ UNCHANGED <<refused, filt, oracleVars, lost, pollerVars, lbVars, botVars>>

\* manualResetLeaderboard: clearLeaderboard resolves
ManualResetLeaderboardClear ==
    /\ resetter.pc = "clear"
    /\ leaderboard' = DeleteMany(leaderboard, resetter.competitionId)
    /\ prevRank' = [w \in Wallets |-> 0]
    /\ resetter' = [resetter EXCEPT !.pc = "end"]
    /\ UNCHANGED <<refused, filt, oracleVars, lost, pollerVars, botVars,
                   lbCall, lbCalls, credited, overlapped>>

\* manualResetLeaderboard: endCompetition(competitionId, []) resolves
ManualResetLeaderboardEnd ==
    /\ resetter.pc = "end"
    /\ competitions' = [i \in 1..Len(competitions) |->
            IF /\ competitions[i].competitionId = resetter.competitionId
               /\ \A j \in 1..(i - 1) : competitions[j].competitionId # resetter.competitionId
            THEN [competitions[i] EXCEPT !.status = "ENDED", !.winners = <<>>, !.endsIn = 0]
            ELSE competitions[i]]
    /\ resetter' = NoReset
    /\ UNCHANGED <<refused, filt, oracleVars, lost, pollerVars, lbVars,
                   deposits, hs, alerts, starter, ender, adder>>

NextEnd ==
    \/ StartNewCompetitionGet("a1")
    \/ CreateCompetition("a1")
    \/ TimePasses
    \/ \E kind \in {"check", "stop"} : EndGetCompetition("", kind)
    \/ ProcessCompetitionEndTop
    \/ EndCompetition
    \/ ProcessCompetitionEndAnnounce
    \/ ProcessCompetitionEndThrow
    \/ ClearLeaderboard
    \/ ManualResetLeaderboardGet
    \/ ManualResetLeaderboardClear
    \/ ManualResetLeaderboardEnd
    \/ \E w \in BotWallets, u \in AdminUsdValues : AddstakeGetCompetition("a1", w, u)
    \/ AddstakeUpdateLeaderboard
    \/ AddstakeReply
    \/ UpdateLeaderboardWrite("addstake")
    \/ UpdateLeaderboardCount("addstake")

SpecEnd == Init /\ [][NextEnd]_vars

(***************************************************************************)
(* processCompetitionEnd over leaderboards of up to MaxEntries wallets     *)
(***************************************************************************)
BoardWallets == <<"w1", "w2", "w3", "w4", "w5", "w6", "w7", "w8">>

\* the leaderboard of comp_1 after n wallets have deposited: all totals
\* different (the later the wallet, the higher), or equal two by two
Board(n, shape) ==
    [i \in 1..n |->
        [wallet |-> BoardWallets[i],
         totalUSD |-> IF shape = "distinct" THEN i ELSE (i + 1) \div 2,
         deposits |-> <<IF shape = "distinct" THEN i ELSE (i + 1) \div 2>>,
         competitionId |-> CompIds[1]]]

\* comp_1 is ACTIVE and wallets have deposited into it
InitBoard ==
    /\ InitOther
    /\ competitions = <<[competitionId |-> CompIds[1], status |-> "ACTIVE",
                         endsIn |-> COMPETITION_DURATION, winners |-> <<>>]>>
    /\ leaderboard \in {Board(n, shape) : n \in 0..MaxEntries, shape \in {"distinct", "ties"}}

NextWinners ==
    \/ TimePasses
    \/ \E kind \in {"check", "stop"} : EndGetCompetition("", kind)
    \/ ProcessCompetitionEndTop
    \/ EndCompetition
    \/ ProcessCompetitionEndAnnounce
    \/ ProcessCompetitionEndThrow
    \/ ClearLeaderboard

SpecWinners == InitBoard /\ [][NextWinners]_vars

\* the hourly check alone, with /start and /addstake
NextCron ==
    \/ StartNewCompetitionGet("a1")
    \/ CreateCompetition("a1")
    \/ TimePasses
    \/ EndGetCompetition("", "check")
    \/ ProcessCompetitionEndTop
    \/ EndCompetition
    \/ ProcessCompetitionEndAnnounce
    \/ ProcessCompetitionEndThrow
    \/ ClearLeaderboard
    \/ \E w \in BotWallets, u \in AdminUsdValues : AddstakeGetCompetition("a1", w, u)
    \/ AddstakeUpdateLeaderboard
    \/ AddstakeReply
    \/ UpdateLeaderboardWrite("addstake")
    \/ UpdateLeaderboardCount("addstake")

\* the cron job keeps firing and every awaited call of an end resolves or
\* rejects
CronFairness ==
    /\ WF_vars(TimePasses)
    /\ WF_vars(EndGetCompetition("", "check"))
    /\ WF_vars(ProcessCompetitionEndTop)
    /\ WF_vars(EndCompetition)
    /\ WF_vars(ProcessCompetitionEndAnnounce \/ ProcessCompetitionEndThrow)
    /\ WF_vars(ClearLeaderboard)

SpecCron == Init /\ [][NextCron]_vars /\ CronFairness

(***************************************************************************)
(* The admin commands of index.ts                                          *)
(***************************************************************************)
\* /start from user u passes the admin check; startNewCompetition is called
StartCommand(u) ==
    /\ isAdmin(u)
    /\ StartNewCompetitionGet(u)

\* /resetlb from user u passes the admin check; manualResetLeaderboard is called
ResetlbCommand(u) ==
    /\ isAdmin(u)
    /\ EndGetCompetition(u, "reset")

\* /addstake from user u passes the admin check
AddstakeCommand(u, w, usdValue) ==
    /\ isAdmin(u)
    /\ AddstakeGetCompetition(u, w, usdValue)

\* a command from a user who is no admin is answered with the refusal
CommandRefused(u, cmd) ==
    /\ ~isAdmin(u)
    /\ refused' = refused \cup {<<u, cmd>>}
    /\ UNCHANGED <<filt, oracleVars, lost, resetter, pollerVars, lbVars, botVars>>

\* the senders of the commands: an admin and a user who is none
AuthUsers == {"a1", "u1"}

NextAuth ==
    \/ \E u \in AuthUsers : StartCommand(u)
    \/ \E u \in AuthUsers : CreateCompetition(u)
    \/ \E u \in AuthUsers : ResetlbCommand(u)
    \/ ClearLeaderboard
    \/ EndCompetition
    \/ \E u \in AuthUsers, w \in BotWallets, usdValue \in AdminUsdValues : AddstakeCommand(u, w, usdValue)
    \/ AddstakeUpdateLeaderboard
    \/ AddstakeReply
    \/ UpdateLeaderboardWrite("addstake")
    \/ UpdateLeaderboardCount("addstake")
    \/ \E u \in AuthUsers, cmd \in AdminCommands : CommandRefused(u, cmd)

SpecAuth == Init /\ [][NextAuth]_vars

(***************************************************************************)
(* The price oracle                                                        *)
(*                                                                         *)
(* Numbers are fixed-point: raw token amounts count units of 10^6 base     *)
(* units, decimal amounts count thousandths, prices count cents and USD    *)
(* values count thousandths of a cent.  The reserves and prices of the     *)
(* model are chosen so that every division of calculateLPValue is exact.   *)
(***************************************************************************)
\* PAIRS[pool].token0 and .token1
Token0(pool) == IF pool = "VS" THEN "SUI" ELSE IF pool = "VU" THEN "VICTORY" ELSE "BTC"
Token1(pool) == IF pool = "VS" THEN "VICTORY" ELSE IF pool = "VU" THEN "USDC" ELSE "VICTORY"

\* getDecimals: DECIMALS.SUI, .USDC, .VICTORY, .WBTC
getDecimals(token) == IF token = "USDC" THEN 6 ELSE IF token = "BTC" THEN 8 ELSE 9

\* the decimals of the LP token (the 1e9 of calculateLPValue)
LP_DECIMALS == 9

RECURSIVE Pow10(_)
Pow10(n) == IF n = 0 THEN 1 ELSE 10 * Pow10(n - 1)

\* fault: the decimals of the token are ignored
ToDecimalUnscaled(raw, decimals) == raw

\* Number(raw) / Math.pow(10, decimals): raw units of 10^6 base units are
\* raw * 10^6 / 10^decimals tokens, that is raw * 10^(9 - decimals) thousandths
ToDecimal(raw, decimals) == raw * Pow10(9 - decimals)

\* the arithmetic of calculateLPValue, in its order of operations
DepositUSD(pool, lpAmount, reserves, token0Price, token1Price) ==
    LET reserve0Decimal == ToDecimal(reserves.reserve0, getDecimals(Token0(pool)))
        reserve1Decimal == ToDecimal(reserves.reserve1, getDecimals(Token1(pool)))
        token0Value == reserve0Decimal * token0Price
        token1Value == reserve1Decimal * token1Price
        totalPoolValue == token0Value + token1Value
        totalSupplyDecimal == ToDecimal(reserves.totalSupply, LP_DECIMALS)
        lpTokenPrice == JsDiv(totalPoolValue, totalSupplyDecimal)
        lpAmountDecimal == ToDecimal(lpAmount, LP_DECIMALS)
    IN  JsMul(lpAmountDecimal, lpTokenPrice)

\* getVictoryPrice: usdcReserve / victoryReserve of the Victory/USDC pool
VictoryPrice(reserves) ==
    (ToDecimal(reserves.reserve1, getDecimals("USDC")) * 100)
        \div ToDecimal(reserves.reserve0, getDecimals("VICTORY"))

\* the fixed price of USDC and the fallbacks of the CoinGecko calls, in cents
USDC_PRICE == 100
SUI_FALLBACK == 350
BTC_FALLBACK == 10000000
Fallback(token) == IF token = "SUI" THEN SUI_FALLBACK ELSE BTC_FALLBACK

\* what getObject can return for a pool: its reserves at different times
Snapshots(pool) ==
    IF pool = "VU"
    THEN { [reserve0 |-> 1000000, reserve1 |-> 500, totalSupply |-> 2000],
           [reserve0 |-> 250000, reserve1 |-> 500, totalSupply |-> 2000] }
    ELSE IF pool = "VS"
    THEN { [reserve0 |-> 100000, reserve1 |-> 1000000, totalSupply |-> 10000] }
    ELSE { [reserve0 |-> 1, reserve1 |-> 1000000, totalSupply |-> 1000] }

\* the lpAmounts of the deposits: 1.0 LP
LpAmounts == {1000}

\* how a CoinGecko call can end: with a price ("ok": data.<id>.usd, in
\* cents), with no usable price ("none": the field is missing or 0), or by
\* throwing ("fail": network error, timeout after 5 s, malformed body)
ApiOutcomes(token) ==
    { [kind |-> "ok", usd |-> IF token = "SUI" THEN 200 ELSE 8000000],
      [kind |-> "none", usd |-> 0],
      [kind |-> "fail", usd |-> 0] }

\* data.<id>.usd || fallback, and the fallback of the catch
PriceOrFallback(token, outcome) ==
    IF outcome.kind = "ok" /\ outcome.usd # 0 THEN outcome.usd ELSE Fallback(token)

Cached(k) == redis[k].ttl # 0

\* fault: the entry is stored without an expiry
SetExForever(cache, k, ttl, value) ==
    [cache EXCEPT ![k] = [value |-> value, age |-> 0, ttl |-> PRICE_TTL * PRICE_TTL]]

\* redis.setEx(k, ttl, value)
SetEx(cache, k, ttl, value) == [cache EXCEPT ![k] = [value |-> value, age |-> 0, ttl |-> ttl]]

\* the two getTokenPrice calls of Promise.all, just started
StartPrices(pool) ==
    << [NoTokenPrice EXCEPT !.pc = "get", !.token = Token0(pool)],
       [NoTokenPrice EXCEPT !.pc = "get", !.token = Token1(pool)] >>

PricesInFlight == \E i \in 1..2 : val.prices[i].pc \notin {"idle", "done", "failed"}

\* time passes, one reserves TTL at a time: the entries age and the expired
\* ones go
TimeStep == RESERVES_TTL

SecondsPass ==
    /\ \E k \in CacheKeys : Cached(k)
    /\ redis' = [k \in CacheKeys |->
            IF Cached(k) /\ redis[k].age + TimeStep < redis[k].ttl
            THEN [redis[k] EXCEPT !.age = @ + TimeStep]
            ELSE NoEntry]
    /\ UNCHANGED <<val, refused, filt, lost, resetter, pollerVars, lbVars, botVars>>

\* calculateLPValue(poolType, lpAmount) is called; redis.get of
\* getPoolReservesDirect resolves: on a hit the reserves are the cached ones
\* and Promise.all starts the two getTokenPrice calls
CalculateLPValue(pool, lpAmount) ==
    /\ val.pc \in {"idle", "done", "failed"}
    /\ ~PricesInFlight
    /\ val.n < MaxValuations
    /\ val' = IF Cached(ReservesKey(pool))
              THEN [pc |-> "prices", pool |-> pool, lpAmount |-> lpAmount,
                    reserves |-> redis[ReservesKey(pool)].value,
                    prices |-> StartPrices(pool), depositUSD |-> 0, n |-> val.n + 1]
              ELSE [pc |-> "fetch", pool |-> pool, lpAmount |-> lpAmount,
                    reserves |-> NoReserves,
                    prices |-> <<NoTokenPrice, NoTokenPrice>>, depositUSD |-> 0, n |-> val.n + 1]
    /\ UNCHANGED <<redis, refused, filt, lost, resetter, pollerVars, lbVars, botVars>>

\* fault: a failed fetch of the reserves is papered over with a default snapshot
GetPoolReservesDefault ==
    /\ val.pc = "fetch"
    /\ val' = [val EXCEPT !.pc = "prices", !.prices = StartPrices(val.pool),
                          !.reserves = [reserve0 |-> 1, reserve1 |-> 1, totalSupply |-> 1]]
    /\ UNCHANGED <<redis, refused, filt, lost, resetter, pollerVars, lbVars, botVars>>

\* getObject of getPoolReservesDirect fails (it rejects, or the object has no
\* move content): calculateLPValue rejects
GetPoolReservesFailed ==
    /\ val.pc = "fetch"
    /\ val' = [val EXCEPT !.pc = "failed"]
    /\ UNCHANGED <<redis, refused, filt, lost, resetter, pollerVars, lbVars, botVars>>

\* getObject of getPoolReservesDirect resolves with the reserves; setEx stores
\* them; Promise.all starts the two getTokenPrice calls
GetPoolReservesFetched(reserves) ==
    /\ val.pc = "fetch"
    /\ reserves \in Snapshots(val.pool)
    /\ redis' = SetEx(redis, ReservesKey(val.pool), RESERVES_TTL, reserves)
    /\ val' = [val EXCEPT !.pc = "prices", !.reserves = reserves, !.prices = StartPrices(val.pool)]
    /\ UNCHANGED <<refused, filt, lost, resetter, pollerVars, lbVars, botVars>>

\* redis.get of the getTokenPrice call i resolves: a hit is returned; on a
\* miss SUI and BTC go to CoinGecko, VICTORY goes to getVictoryPrice, and the
\* price of USDC is 1.0, stored by setEx
GetTokenPrice(i) ==
    /\ val.prices[i].pc = "get"
    /\ LET token == val.prices[i].token
           k == PriceKey(token)
       IN  IF Cached(k)
           THEN /\ val' = [val EXCEPT !.prices[i].pc = "done", !.prices[i].price = redis[k].value]
                /\ UNCHANGED redis
           ELSE IF token = "USDC"
           THEN /\ val' = [val EXCEPT !.prices[i].pc = "done", !.prices[i].price = USDC_PRICE]
                /\ redis' = SetEx(redis, k, PRICE_TTL, USDC_PRICE)
           ELSE /\ val' = [val EXCEPT !.prices[i].pc = IF token = "VICTORY" THEN "reserves" ELSE "api"]
                /\ UNCHANGED redis
    /\ UNCHANGED <<refused, filt, lost, resetter, pollerVars, lbVars, botVars>>

\* fault: a failed CoinGecko call makes getTokenPrice reject
GetPriceFromCoinGeckoRethrow(i, outcome) ==
    /\ val.prices[i].pc = "api"
    /\ outcome \in ApiOutcomes(val.prices[i].token)
    /\ IF outcome.kind = "fail"
       THEN /\ val' = [val EXCEPT !.prices[i].pc = "failed", !.prices[i].api = "fail", !.pc = "failed"]
            /\ UNCHANGED redis
       ELSE \E price \in {PriceOrFallback(val.prices[i].token, outcome)} :
                /\ val' = [val EXCEPT !.prices[i].pc = "done", !.prices[i].price = price,
                                      !.prices[i].api = outcome.kind]
                /\ redis' = SetEx(redis, PriceKey(val.prices[i].token), PRICE_TTL, price)
    /\ UNCHANGED <<refused, filt, lost, resetter, pollerVars, lbVars, botVars>>

\* getSUIPriceFromCoinGecko / getBTCPriceFromCoinGecko ends: the price is
\* data.<id>.usd || fallback, or the fallback of the catch; setEx stores it
GetPriceFromCoinGecko(i, outcome) ==
    /\ val.prices[i].pc = "api"
    /\ outcome \in ApiOutcomes(val.prices[i].token)
    /\ \E price \in {PriceOrFallback(val.prices[i].token, outcome)} :
            /\ val' = [val EXCEPT !.prices[i].pc = "done", !.prices[i].price = price,
                                  !.prices[i].api = outcome.kind]
            /\ redis' = SetEx(redis, PriceKey(val.prices[i].token), PRICE_TTL, price)
    /\ UNCHANGED <<refused, filt, lost, resetter, pollerVars, lbVars, botVars>>

\* getVictoryPrice: redis.get of getPoolReservesDirect(VICTORY_USDC) resolves;
\* on a hit the price is computed and stored
GetVictoryPriceReserves(i) ==
    /\ val.prices[i].pc = "reserves"
    /\ IF Cached(ReservesKey("VU"))
       THEN \E price \in {VictoryPrice(redis[ReservesKey("VU")].value)} :
                /\ val' = [val EXCEPT !.prices[i].pc = "done", !.prices[i].price = price]
                /\ redis' = SetEx(redis, PriceKey("VICTORY"), PRICE_TTL, price)
       ELSE /\ val' = [val EXCEPT !.prices[i].pc = "fetch"]
            /\ UNCHANGED redis
    /\ UNCHANGED <<refused, filt, lost, resetter, pollerVars, lbVars, botVars>>

\* getVictoryPrice: getObject resolves with the reserves of Victory/USDC;
\* they are stored, the price is computed and stored
GetVictoryPriceFetched(i, reserves) ==
    /\ val.prices[i].pc = "fetch"
    /\ reserves \in Snapshots("VU")
    /\ \E price \in {VictoryPrice(reserves)} :
            /\ val' = [val EXCEPT !.prices[i].pc = "done", !.prices[i].price = price]
            /\ redis' = SetEx(SetEx(redis, ReservesKey("VU"), RESERVES_TTL, reserves),
                              PriceKey("VICTORY"), PRICE_TTL, price)
    /\ UNCHANGED <<refused, filt, lost, resetter, pollerVars, lbVars, botVars>>

\* getVictoryPrice: getObject fails; getTokenPrice rejects, so Promise.all and
\* calculateLPValue reject (the other getTokenPrice call runs on)
GetVictoryPriceFailed(i) ==
    /\ val.prices[i].pc = "fetch"
    /\ val' = [val EXCEPT !.prices[i].pc = "failed", !.pc = "failed"]
    /\ UNCHANGED <<redis, refused, filt, lost, resetter, pollerVars, lbVars, botVars>>

\* both prices are there: calculateLPValue computes and returns depositUSD
CalculateLPValueReturn ==
    /\ val.pc = "prices"
    /\ \A i \in 1..2 : val.prices[i].pc = "done"
    /\ val' = [val EXCEPT !.pc = "done",
                          !.depositUSD = DepositUSD(val.pool, val.lpAmount, val.reserves,
                                                    val.prices[1].price, val.prices[2].price)]
    /\ UNCHANGED <<redis, refused, filt, lost, resetter, pollerVars, lbVars, botVars>>

NextOracle ==
    \/ SecondsPass
    \/ \E pool \in Pools, lpAmount \in LpAmounts : CalculateLPValue(pool, lpAmount)
    \/ GetPoolReservesFailed
    \/ \E reserves \in UNION {Snapshots(pool) : pool \in Pools} : GetPoolReservesFetched(reserves)
    \/ \E i \in 1..2 : GetTokenPrice(i)
    \/ \E i \in 1..2, outcome \in UNION {ApiOutcomes(token) : token \in {"SUI", "BTC"}} :
            GetPriceFromCoinGecko(i, outcome)
    \/ \E i \in 1..2 : GetVictoryPriceReserves(i)
    \/ \E i \in 1..2, reserves \in Snapshots("VU") : GetVictoryPriceFetched(i, reserves)
    \/ \E i \in 1..2 : GetVictoryPriceFailed(i)
    \/ CalculateLPValueReturn

SpecOracle == Init /\ [][NextOracle]_vars

(***************************************************************************)
(* The poller with handleStakeEvent as its onStake callback                *)
(***************************************************************************)
\* the staker of the deposits
PipeWallet == "w1"

\* handleEvent awaits onStakeCallback: handleStakeEvent is called with the
\* event of slot s, calculateLPValue resolves with u
OnStakeCallback(s, u) ==
    /\ poll[s].pc = "callback"
    /\ hs.pc = "idle"
    /\ HandleStakeEventValued(PipeWallet, u)

\* fault: the error escapes handleStakeEvent and handleEvent into the loop of
\* pollEvents, whose catch ends the cycle
HandleStakeEventLostRethrow(s) ==
    /\ poll[s].pc = "callback"
    /\ hs.pc \in {"idle", "store"}
    /\ hs' = NoStake
    /\ lost' = lost \cup {poll[s].batch[poll[s].idx].txDigest}
    /\ poll' = [poll EXCEPT ![s] = IdlePoll]
    /\ isPolling' = FALSE
    /\ lastOutcome' = "error"
    /\ cyc' = NoCycle
    /\ UNCHANGED <<phase, botStartTime, seenEvents, fillerNext, calls, handed, polledOld, failedCb,
                   returned, initFetched, loopSeen, evicted, lbVars,
                   competitions, deposits, alerts, starter, ender, adder, refused, filt, oracleVars, resetter>>

\* calculateLPValue rejects (handleStakeEvent has just been called) or
\* addDeposit rejects: the catch of handleStakeEvent logs the error
HandleStakeEventLost(s) ==
    /\ poll[s].pc = "callback"
    /\ hs.pc \in {"idle", "store"}
    /\ hs' = [NoStake EXCEPT !.pc = "failed"]
    /\ lost' = lost \cup {poll[s].batch[poll[s].idx].txDigest}
    /\ UNCHANGED <<pollerVars, lbVars, competitions, deposits, alerts, starter, ender, adder,
                   refused, filt, oracleVars, resetter>>

\* handleStakeEvent has returned: onStakeCallback resolves, handleEvent
\* returns true, the loop goes on
OnStakeCallbackReturn(s) ==
    /\ poll[s].pc = "callback"
    /\ hs.pc \in {"skipped", "done", "failed"}
    /\ RunLoop(s, poll[s].batch, poll[s].idx + 1, cyc)
    /\ hs' = NoStake
    /\ UNCHANGED <<phase, botStartTime, fillerNext, failedCb, returned, initFetched, lbVars,
                   competitions, deposits, alerts, starter, ender, adder, restVars>>

NextPipe ==
    \/ Start
    \/ \E w \in EvictWindows : InitializeSeenEventsOk(w)
    \/ Tick
    \/ \E s \in Slots, w \in EvictWindows : PollEventsFetched(s, w)
    \/ \E s \in Slots, u \in Valuations : OnStakeCallback(s, u)
    \/ \E s \in Slots : HandleStakeEventLost(s)
    \/ HandleStakeEventGetCompetition
    \/ HandleStakeEventAddDeposit
    \/ HandleStakeEventUpdateLeaderboard
    \/ HandleStakeEventRanked
    \/ HandleStakeEventAlert
    \/ UpdateLeaderboardWrite("handleStakeEvent")
    \/ UpdateLeaderboardCount("handleStakeEvent")
    \/ \E s \in Slots : OnStakeCallbackReturn(s)
    \/ StartNewCompetitionGet("a1")
    \/ CreateCompetition("a1")

SpecPipe == Init /\ [][NextPipe]_vars

(***************************************************************************)
(* handleStakeEvent on the valuations calculateLPValue computes            *)
(***************************************************************************)
\* what getObject can return for the Victory/SUI pool, a pool without LP
\* supply included: with its reserves left, and empty
FloorSnapshots ==
    Snapshots("VS") \cup { [reserve0 |-> 100000, reserve1 |-> 1000000, totalSupply |-> 0],
                           [reserve0 |-> 0, reserve1 |-> 0, totalSupply |-> 0] }

\* the lpAmounts of the deposits: 1.0 LP, 0.002 LP and 0
FloorLpAmounts == {1000, 2, 0}

\* depositUSD, in thousandths of a cent, in the dollars of MIN_DEPOSIT_USD
Dollars(depositUSD) == IF IsFinite(depositUSD) THEN depositUSD \div 100000 ELSE depositUSD

\* handleStakeEvent is called with a deposit of lpAmount into the Victory/SUI
\* pool; calculateLPValue reads the reserves and resolves with depositUSD
HandleStakeEventPriced(w, lpAmount, reserves) ==
    \E vu \in Snapshots("VU") :
        HandleStakeEventValued(w, Dollars(DepositUSD("VS", lpAmount, reserves,
                                                     VictoryPrice(vu), SUI_FALLBACK)))

NextFloor ==
    \/ \E w \in BotWallets, lpAmount \in FloorLpAmounts, reserves \in FloorSnapshots :
            HandleStakeEventPriced(w, lpAmount, reserves)
    \/ HandleStakeEventGetCompetition
    \/ HandleStakeEventAddDeposit
    \/ HandleStakeEventUpdateLeaderboard
    \/ HandleStakeEventRanked
    \/ HandleStakeEventAlert
    \/ HandleStakeEventCatch
    \/ StartNewCompetitionGet("a1")
    \/ CreateCompetition("a1")
    \/ UpdateLeaderboardWrite("handleStakeEvent")
    \/ UpdateLeaderboardCount("handleStakeEvent")

SpecFloor == Init /\ [][NextFloor]_vars

(***************************************************************************)
(* The pool filter of handleEvent                                          *)
(***************************************************************************)
\* handleEvent reads the pool type of the event and applies isTargetPool: the
\* event goes on to the callback or handleEvent returns false
HandleEventIsTargetPool(package, address, pair) ==
    /\ filt' = [pc |-> IF IsTargetPoolWith(package, LpType(address, pair[1], pair[2]))
                       THEN "callback" ELSE "rejected",
                package |-> package, address |-> address, pair |-> pair]
    /\ UNCHANGED <<refused, oracleVars, lost, resetter, pollerVars, lbVars, botVars>>

NextPool ==
    \E package \in AddressForms, address \in AddressForms, pair \in EventPairs :
        HandleEventIsTargetPool(package, address, pair)

SpecPool == Init /\ [][NextPool]_vars

(***************************************************************************)
(* Properties                                                              *)
(***************************************************************************)
\* number of onStakeCallback invocations for digest d
CallCount(d) == Cardinality({i \in 1..Len(calls) : calls[i].txDigest = d})

\* number of times the cleanup removed digest d after it had been emitted
EvictCount(d) == Cardinality({i \in 1..Len(evicted) : evicted[i] = d})

\* the digests of a seen-set, in insertion order
RECURSIVE Expand(_)
Expand(seen) ==
    IF Len(seen) = 0 THEN <<>>
    ELSE [i \in 1..RunSize(Head(seen)) |-> Head(seen).lo + i - 1] \o Expand(Tail(seen))

SeenDigests(seen) == UNION {seen[i].lo..seen[i].hi : i \in 1..Len(seen)}

\* the events of a batch that a cycle has to emit, in the order of the batch:
\* post-start, tracked pool, digest neither seen before the cycle nor carried
\* by an earlier event of the batch
ExpectedEmit(batch, preSeen) ==
    LET pos == SelectSeq([i \in 1..Len(batch) |-> i],
                         LAMBDA i : /\ batch[i].timestampMs > botStartTime
                                    /\ isTargetPool(batch[i].pool_type)
                                    /\ batch[i].txDigest \notin preSeen
                                    /\ \A k \in 1..(i - 1) : batch[k].txDigest # batch[i].txDigest)
    IN  [j \in 1..Len(pos) |-> batch[pos[j]]]

Busy == {s \in Slots : poll[s].pc # "idle"}
InCallback == {s \in Slots : poll[s].pc = "callback"}

\* C1 (as amended): a digest is handed to onStakeCallback at most once more
\* than the cleanup has evicted it, however often the feed returns its event;
\* the deposit that was not marked at startup and was never evicted has been
\* handed over exactly once as soon as a poll has returned it.
C1_AtMostOncePerResidency ==
    /\ \A i \in 1..Len(calls) :
            CallCount(calls[i].txDigest) <= 1 + EvictCount(calls[i].txDigest)
    /\ (returned >= 1 /\ TheDeposit \notin initFetched /\ EvictCount(TheDeposit.txDigest) = 0)
            => CallCount(TheDeposit.txDigest) = 1

\* C1 (as claimed): an event that the fetches of pollEvents returned twice or
\* more is handed to onStakeCallback exactly once in total.
C1_ExactlyOnceInTotal ==
    (returned = 2 /\ TheDeposit \notin initFetched) => CallCount(TheDeposit.txDigest) = 1

\* the deposit was returned twice and emitted once
C1_Witness ==
    /\ returned = 2
    /\ TheDeposit \notin initFetched
    /\ CallCount(TheDeposit.txDigest) = 1
    /\ evicted = <<>>
    /\ lastOutcome = "done"

\* C2: the digest of an event is in seenEvents from the moment its callback
\* is started; an event is handed to the callback only when its digest is not
\* in seenEvents; an event whose callback threw stays in seenEvents and is
\* never handed to the callback again.
C2_SeenBeforeCallback ==
    /\ [](\A s \in InCallback : Has(seenEvents, poll[s].batch[poll[s].idx].txDigest))
    /\ [](\A e \in failedCb : Has(seenEvents, e.txDigest) /\ CallCount(e.txDigest) = 1)
    /\ [][calls' # calls => ~Has(seenEvents, calls'[Len(calls')].txDigest)]_vars

\* a later cycle fetched an event whose callback had thrown, and skipped it
C2_Witness ==
    \E s \in InCallback : \E e \in failedCb :
        /\ e.txDigest \in cyc.preSeen
        /\ e \in Range(poll[s].batch)
        /\ CallCount(e.txDigest) = 1

\* C3: no event stamped at or before botStartTime is handed to handleEvent or
\* to onStakeCallback, and the digest of such an event is in seenEvents once
\* an iteration of the loop has reached it.
C3_StartupSuppression ==
    /\ \A e \in handed : e.timestampMs > botStartTime
    /\ \A i \in 1..Len(calls) : calls[i].timestampMs > botStartTime
    /\ \A e \in polledOld : Has(seenEvents, e.txDigest)

\* a pre-start event that initializeSeenEvents had not fetched was polled:
\* its digest was added, the event was not handed over
C3_Witness ==
    \E e \in polledOld :
        /\ \A f \in initFetched : f.txDigest # e.txDigest
        /\ e.timestampMs <= botStartTime
        /\ Has(seenEvents, e.txDigest)
        /\ e \notin handed
        /\ CallCount(e.txDigest) = 0

C5_SinglePoller ==
    /\ [](Cardinality(Busy) <= 1 /\ (isPolling <=> Busy # {}))
    /\ [][(cyc'.suppressed /\ ~cyc.suppressed) =>
            /\ isPolling
            /\ UNCHANGED <<seenEvents, isPolling, poll, calls, handed, lastOutcome>>]_vars

\* a tick was suppressed while a callback of the cycle in flight was awaited
C5_Witness == cyc.suppressed /\ isPolling /\ InCallback # {}

\* C6: a failed fetch ends its cycle with seenEvents, the calls and the
\* events handed to handleEvent unchanged, the guard released and the poller
\* still running, so that the next tick passes the guard.
C6_FetchErrorAbortsCycleOnly ==
    [][(\E s \in Slots : poll[s].pc = "fetch" /\ poll'[s].pc = "idle" /\ lastOutcome' = "error") =>
            /\ seenEvents' = seenEvents
            /\ calls' = calls
            /\ handed' = handed
            /\ ~isPolling'
            /\ phase' = "running"
            /\ \A s \in Slots : poll'[s].pc = "idle"]_vars

\* a fetch failed after earlier cycles had seen and emitted events
C6_Witness ==
    /\ lastOutcome = "error"
    /\ Len(calls) > 0
    /\ Len(seenEvents) > 0
    /\ ~isPolling

\* C7: a cycle that awaited a callback ends through the cleanup, whether or
\* not a callback threw, and has then emitted every post-start tracked-pool
\* event of its batch whose digest was new, in the order of the batch; every
\* digest of the batch has reached the seen-set.
C7_FailureIsolated ==
    [][\A s \in Slots : (poll[s].pc = "callback" /\ poll'[s].pc = "idle") =>
            /\ lastOutcome' = "done"
            /\ SubSeq(calls', cyc.base + 1, Len(calls')) = ExpectedEmit(poll[s].batch, cyc.preSeen)
            /\ \A i \in 1..Len(poll[s].batch) : Has(loopSeen', poll[s].batch[i].txDigest)
            /\ Size(loopSeen') <= SEEN_CAP => seenEvents' = loopSeen']_vars

\* the callback of the first event of a batch threw and the callback of the
\* second event of the batch is awaited
C7_Witness ==
    \E s \in InCallback :
        /\ poll[s].idx = 2
        /\ poll[s].batch[1] \in failedCb
        /\ Len(calls) = cyc.base + 2
        /\ calls[cyc.base + 1] = poll[s].batch[1]

C9_OneAtATimeOldestFirst ==
    /\ Cardinality(InCallback) <= 1
    /\ \A s \in InCallback :
            /\ Len(calls) > cyc.base
            /\ calls[Len(calls)] = poll[s].batch[poll[s].idx]
            /\ \A i, j \in (cyc.base + 1)..Len(calls) :
                    i < j => calls[i].timestampMs <= calls[j].timestampMs

\* the second callback of a cycle is awaited, for a newer event than the first
C9_Witness ==
    \E s \in InCallback :
        /\ Len(calls) = cyc.base + 2
        /\ calls[Len(calls) - 1].timestampMs < calls[Len(calls)].timestampMs

\* the documents of a wallet in a competition
Entries(w, k) == {i \in 1..Len(leaderboard) : Matches(leaderboard[i], w, k)}

\* C10 (as claimed): once no updateLeaderboard call is in flight, the entry
\* of a wallet holds the sum of the usdValues of all the calls made for it.
C10_NoLostUpdate ==
    (\A c \in Callers : lbCall[c].pc \in {"idle", "done"}) =>
        \A w \in Wallets : \A k \in Competitions :
            Cardinality(Entries(w, k)) = 1 =>
                leaderboard[FirstMatch(leaderboard, w, k)].totalUSD = credited[w]

\* the sum of a sequence of numbers
RECURSIVE Sum(_)
Sum(q) == IF Len(q) = 0 THEN 0 ELSE Head(q) + Sum(Tail(q))

\* the rank of wallet w in competition k: 1 + the number of entries of other
\* wallets of the competition with a strictly greater totalUSD
RankOf(w, k) ==
    1 + Cardinality({i \in 1..Len(leaderboard) :
            /\ leaderboard[i].competitionId = k
            /\ leaderboard[i].wallet # w
            /\ leaderboard[i].totalUSD > leaderboard[FirstMatch(leaderboard, w, k)].totalUSD})

\* C11: as long as no two updateLeaderboard calls have overlapped, the write
\* of the first call for a (wallet, competitionId) creates the entry with
\* totalUSD equal to its usdValue, and the wallet has one entry whose totalUSD
\* is the sum of the usdValues of all the calls written so far for it.
C11_SequentialAccumulation ==
    /\ [](~overlapped =>
            \A w \in Wallets : \A k \in Competitions :
                /\ Cardinality(Entries(w, k)) <= 1
                /\ Entries(w, k) = {} => credited[w] = 0
                /\ Entries(w, k) # {} =>
                        LET e == leaderboard[FirstMatch(leaderboard, w, k)]
                        IN  e.totalUSD = credited[w] /\ e.totalUSD = Sum(e.deposits))
    /\ [][\A c \in Callers :
            (/\ ~overlapped
             /\ lbCall[c].pc = "found" /\ lbCall'[c].pc = "written"
             /\ Entries(lbCall[c].wallet, lbCall[c].competitionId) = {}) =>
                /\ Len(leaderboard') = Len(leaderboard) + 1
                /\ leaderboard'[Len(leaderboard')].wallet = lbCall[c].wallet
                /\ leaderboard'[Len(leaderboard')].competitionId = lbCall[c].competitionId
                /\ leaderboard'[Len(leaderboard')].totalUSD = lbCall[c].usdValue]_vars

\* three calls for one wallet, one after the other, have been written
C11_Witness ==
    /\ ~overlapped
    /\ \E w \in Wallets : \E k \in Competitions :
            /\ Entries(w, k) # {}
            /\ Len(leaderboard[FirstMatch(leaderboard, w, k)].deposits) = 3
            /\ leaderboard[FirstMatch(leaderboard, w, k)].totalUSD = 5

\* C12 (as claimed): the leaderboard never holds two entries for one
\* (wallet, competitionId).
C12_OneEntryPerWallet ==
    \A w \in Wallets : \A k \in Competitions : Cardinality(Entries(w, k)) <= 1

C19_TotalNeverDecreases ==
    [][\A i \in 1..Len(leaderboard) :
            i <= Len(leaderboard') => leaderboard'[i].totalUSD >= leaderboard[i].totalUSD]_vars

\* the status of the competition with id k, "" if there is none
StatusOf(k) ==
    IF \E i \in 1..Len(competitions) : competitions[i].competitionId = k
    THEN competitions[CHOOSE i \in 1..Len(competitions) : competitions[i].competitionId = k].status
    ELSE ""

\* C13 (as claimed): at most one competition has status ACTIVE.
C13_OneActiveCompetition == Cardinality(ActiveCompetitions) <= 1

\* C14 (as claimed): when handleStakeEvent invokes updateLeaderboard with a
\* competitionId, the competition with that id has status ACTIVE.
C14_RankedCompetitionIsActive ==
    [][(hs.pc = "store" /\ hs'.pc = "rank") => StatusOf(hs.competition) = "ACTIVE"]_vars

\* C15: once getCurrentCompetition has returned none to handleStakeEvent,
\* addDeposit stores the deposit (under tracking_only), updateLeaderboard is
\* not called, the steps of the handler leave the leaderboard as it is, and
\* the alert carries no rank.
C15_NoCompetitionPath ==
    /\ []((hs.pc \in {"store", "alert"} /\ hs.competition = NoComp) => hs.rank = NoRank)
    /\ [](hs.pc \in {"rank", "ranking"} => hs.competition # NoComp)
    /\ [][(hs.pc = "store" /\ hs.competition = NoComp /\ hs'.pc # "failed" /\ hs' # hs) =>
            /\ hs'.pc = "alert"
            /\ deposits' = Append(deposits, [wallet |-> hs.wallet, usdValue |-> hs.usdValue,
                                             competitionId |-> TrackingOnly])
            /\ UNCHANGED <<leaderboard, lbCall, lbCalls>>]_vars
    /\ [][(hs.pc = "alert" /\ hs.competition = NoComp /\ hs'.pc # "failed" /\ hs' # hs) =>
            /\ hs'.pc = "done"
            /\ alerts' = Append(alerts, [wallet |-> hs.wallet, usdValue |-> hs.usdValue,
                                         rank |-> NoRank])
            /\ UNCHANGED <<leaderboard, lbCall, lbCalls, deposits>>]_vars

\* a deposit was handled with no competition active: stored as tracking_only
\* and announced without a rank, no updateLeaderboard call made
C15_Witness ==
    /\ hs.pc = "done"
    /\ lbCalls = 0
    /\ leaderboard = <<>>
    /\ Len(deposits) > 0 /\ deposits[Len(deposits)].competitionId = TrackingOnly
    /\ Len(alerts) > 0 /\ alerts[Len(alerts)].rank = NoRank

\* C16: a deposit valued below MIN_DEPOSIT_USD is dropped before addDeposit,
\* updateLeaderboard and sendDepositAlert; a deposit valued at the floor or
\* above goes on.
C16_MinimumDepositFilter ==
    /\ [](hs.pc = "skipped" => hs.usdValue < MIN_DEPOSIT_USD)
    /\ [](hs.pc \in {"getcomp", "store", "rank", "ranking", "alert"} => hs.usdValue >= MIN_DEPOSIT_USD)
    /\ [](\A i \in 1..Len(alerts) : alerts[i].usdValue >= MIN_DEPOSIT_USD)
    /\ [](lbCall["handleStakeEvent"].pc # "idle" =>
                lbCall["handleStakeEvent"].usdValue >= MIN_DEPOSIT_USD)
    /\ [][(hs' # hs /\ hs'.pc = "skipped") =>
                UNCHANGED <<alerts, deposits, leaderboard, lbCall, lbCalls>>]_vars

\* a deposit valued below the floor has been dropped after a deposit valued
\* exactly at the floor had been ranked and announced
C16_Witness ==
    /\ hs.pc = "skipped"
    /\ hs.usdValue < MIN_DEPOSIT_USD
    /\ \E i \in 1..Len(alerts) : alerts[i].usdValue = MIN_DEPOSIT_USD /\ alerts[i].rank # NoRank

\* C20: the deposits only grow at the end, and no step of a competition end,
\* of a leaderboard reset or of updateLeaderboard changes them.
C20_DepositsAppendOnly ==
    /\ [][/\ Len(deposits') >= Len(deposits)
          /\ SubSeq(deposits', 1, Len(deposits)) = deposits]_vars
    /\ [][(\/ ender' # ender
           \/ competitions' # competitions
           \/ leaderboard' # leaderboard
           \/ lbCall' # lbCall) => deposits' = deposits]_vars

\* the deposit of an ended competition is still there after its leaderboard
\* entries have been cleared
C20_Witness ==
    \E j \in 1..Len(deposits) :
        /\ StatusOf(deposits[j].competitionId) = "ENDED"
        /\ CompetitionEntries(deposits[j].competitionId) = {}
        /\ credited[deposits[j].wallet] > 0
        /\ ender = NoEnd

\* the address that a textual form denotes: the form without its 0x prefix
\* and without its leading zeros
HexValue(form) ==
    LET body == IF Len(form) >= 2 /\ form[1] = "0" /\ form[2] = "x"
                THEN SubSeq(form, 3, Len(form)) ELSE form
    IN  SubSeq(body, LeadingZeros(body) + 1, Len(body))

\* C26 (as claimed): the pool type of an event is accepted exactly when its
\* token pair is a tracked one and its address is the configured address,
\* whatever the zero-padding of either textual form.
C26_PoolFilterUpToPadding ==
    filt.pc # "idle" =>
        (filt.pc = "callback" <=>
            /\ filt.pair \in TrackedPairs
            /\ HexValue(filt.address) = HexValue(filt.package))

\* C29 (as claimed): when the endCompetition of checkCompetitionEnd resolves
\* for a competition that is ACTIVE, its endTime has been reached, it becomes
\* ENDED with the winners saved, and no competition is ACTIVE afterwards.
C29_CheckEndsDueCompetition ==
    [][(/\ ender.kind = "check" /\ ender.pc = "end" /\ ender'.pc = "announce"
        /\ StatusOf(ender.competitionId) = "ACTIVE") =>
            /\ \E i \in 1..Len(competitions) :
                    /\ competitions[i].competitionId = ender.competitionId
                    /\ competitions[i].endsIn = 0
                    /\ competitions'[i].status = "ENDED"
                    /\ competitions'[i].winners = ender.winners
            /\ CurrentCompetition' = NoComp]_vars

\* C28: no /start, /resetlb or /addstake of a user outside ADMIN_USER_IDS is
\* ever in progress, and the step that answers such a command with the
\* refusal changes no competition, leaderboard or deposit.
C28_AdminCommandsAuthorized ==
    /\ [](\A u \in Users \ ADMIN_USER_IDS : starter[u] = NoStart)
    /\ [](ender.from \notin Users \ ADMIN_USER_IDS)
    /\ [](adder.from \notin Users \ ADMIN_USER_IDS)
    /\ [][refused' # refused =>
            /\ \E u \in Users \ ADMIN_USER_IDS, cmd \in AdminCommands :
                    refused' = refused \cup {<<u, cmd>>}
            /\ UNCHANGED <<competitions, leaderboard, deposits, starter, ender, adder, lbCall>>]_vars

\* the three commands of a user who is no admin have been refused while a
\* competition was ACTIVE and had an entry
C28_Witness ==
    /\ refused = {<<"u1", cmd>> : cmd \in AdminCommands}
    /\ ActiveCompetitions # {}
    /\ leaderboard # <<>>

\* C27: sendDepositAlert is called only by the step that ends a
\* handleStakeEvent whose deposit is at or above the floor and has been
\* stored by addDeposit, once for that deposit, and it carries the rank that
\* the updateLeaderboard call of the handler returned (none if no competition
\* was read).
C27_AlertAfterStoreAndRank ==
    /\ [](Len(alerts) <= Len(deposits))
    /\ [][(hs.pc = "alert" /\ hs'.pc = "done") => Len(alerts') = Len(alerts) + 1]_vars
    /\ [][alerts' # alerts =>
            /\ hs.pc = "alert" /\ hs'.pc = "done"
            /\ alerts' = Append(alerts, [wallet |-> hs.wallet, usdValue |-> hs.usdValue,
                                         rank |-> hs.rank])
            /\ hs.usdValue >= MIN_DEPOSIT_USD
            /\ Len(deposits) > 0
            /\ deposits[Len(deposits)].wallet = hs.wallet
            /\ deposits[Len(deposits)].usdValue = hs.usdValue
            /\ IF hs.competition = NoComp THEN hs.rank = NoRank
               ELSE /\ lbCall["handleStakeEvent"].pc = "done"
                    /\ lbCall["handleStakeEvent"].wallet = hs.wallet
                    /\ lbCall["handleStakeEvent"].competitionId = hs.competition
                    /\ hs.rank = lbCall["handleStakeEvent"].rank
                    /\ hs.rank # NoRank]_vars

\* two deposits have been handled to the end, the second one ranked
C27_Witness ==
    /\ hs.pc = "done"
    /\ Len(alerts) = 2 /\ Len(deposits) = 2
    /\ alerts[2].rank # NoRank


\* C21: getTokenPrice for USDC returns 1.0 and touches the price cache
\* neither way: the lookup leaves the cache as it was, and the cache never
\* holds a price for USDC.
C21_UsdcPriceBypassesCache ==
    /\ [](\A i \in 1..2 : (val.prices[i].token = "USDC" /\ val.prices[i].pc = "done")
                            => val.prices[i].price = 100)
    /\ [](~Cached(PriceKey("USDC")))
    /\ [][\A i \in 1..2 : (val.prices[i].token = "USDC" /\ val.prices[i].pc = "get"
                           /\ val'.prices[i].pc = "done") => redis' = redis]_vars

\* C22: a CoinGecko call for SUI or BTC that throws, times out or brings no
\* usable price makes getTokenPrice return the fallback (3.5 for SUI, 100000
\* for BTC); the getTokenPrice calls for SUI and BTC never fail, and
\* calculateLPValue fails only on the reserves of a pool.
C22_ApiFailureFallsBack ==
    /\ [](\A i \in 1..2 : val.prices[i].token \in {"SUI", "BTC"} => val.prices[i].pc # "failed")
    /\ [](\A i \in 1..2 : val.prices[i].api \in {"none", "fail"} =>
                /\ val.prices[i].pc = "done"
                /\ val.prices[i].price = (IF val.prices[i].token = "SUI" THEN 350 ELSE 10000000))
    /\ [](val.pc = "failed" =>
                \/ val.reserves = NoReserves
                \/ \E i \in 1..2 : val.prices[i].token = "VICTORY" /\ val.prices[i].pc = "failed")
    /\ [][\A i \in 1..2 : (val.prices[i].pc = "api" /\ val'.prices[i] # val.prices[i]) =>
                /\ val'.prices[i].pc = "done"
                /\ val'.pc = val.pc]_vars

\* the valuation of a SUI pool completed on the fallback after the call threw
C22_Witness ==
    /\ val.pc = "done"
    /\ val.depositUSD > 0
    /\ \E i \in 1..2 : /\ val.prices[i].token = "SUI"
                       /\ val.prices[i].api = "fail"
                       /\ val.prices[i].price = SUI_FALLBACK

\* C23: when the fetch of a pool's reserves fails after a cache miss,
\* calculateLPValue fails: it has no reserves and no value, and the cache is
\* left as it was.  The only other way out of the fetch is the fetched
\* snapshot, stored fresh.  The same holds for the fetch of getVictoryPrice.
C23_ReserveFetchFailureFails ==
    /\ [](val.pc = "failed" => val.depositUSD = 0)
    /\ [][(val.pc = "fetch" /\ val' # val) =>
            \/ /\ val'.pc = "failed"
               /\ val'.reserves = NoReserves
               /\ redis' = redis
            \/ /\ val'.pc = "prices"
               /\ val'.reserves \in Snapshots(val.pool)
               /\ redis'[ReservesKey(val.pool)] =
                      [value |-> val'.reserves, age |-> 0, ttl |-> RESERVES_TTL]]_vars
    /\ [][\A i \in 1..2 : (val.prices[i].pc = "fetch" /\ val'.prices[i] # val.prices[i]) =>
            \/ /\ val'.prices[i].pc = "failed"
               /\ val'.pc = "failed"
               /\ redis' = redis
            \/ /\ val'.prices[i].pc = "done"
               /\ \E r \in Snapshots("VU") :
                    /\ redis'[ReservesKey("VU")] = [value |-> r, age |-> 0, ttl |-> RESERVES_TTL]
                    /\ val'.prices[i].price = VictoryPrice(r)]_vars

\* the second valuation of the Victory/USDC pool failed on its reserves: the
\* first one's snapshot has expired (the USDC price it stored is still there)
C23_Witness ==
    /\ val.pc = "failed"
    /\ val.pool = "VU"
    /\ val.reserves = NoReserves
    /\ Cached(PriceKey("USDC"))
    /\ ~Cached(ReservesKey("VU"))

\* C25: usdValue = lpAmount/10^9 * (reserve0/10^dec0 * price0 +
\* reserve1/10^dec1 * price1) / (totalSupply/10^9); with the reserves
\* {1000 tokens of 9 decimals, 500 tokens of 6 decimals, totalSupply
\* 2_000000000}, prices 2.00 and 1.00 and lpAmount 1_000000000 that is $1250
\* (125000000 thousandths of a cent).
C25_LpValueFormula ==
    val.pc = "done" =>
        /\ val.depositUSD =
              val.lpAmount *
                ((val.reserves.reserve0 * Pow10(9 - getDecimals(Token0(val.pool))) * val.prices[1].price
                  + val.reserves.reserve1 * Pow10(9 - getDecimals(Token1(val.pool))) * val.prices[2].price)
                 \div val.reserves.totalSupply)
        /\ ( /\ val.pool = "VU"
             /\ val.reserves = [reserve0 |-> 1000000, reserve1 |-> 500, totalSupply |-> 2000]
             /\ val.prices[1].price = 200
             /\ val.prices[2].price = 100
             /\ val.lpAmount = 1000 ) => val.depositUSD = 125000000

\* the valuation of the example is done
C25_Witness ==
    /\ val.pc = "done"
    /\ val.pool = "VU"
    /\ val.reserves = [reserve0 |-> 1000000, reserve1 |-> 500, totalSupply |-> 2000]
    /\ val.prices[1].price = 200
    /\ val.prices[2].price = 100
    /\ val.lpAmount = 1000

\* C25 as stated: the example values at $1.25 (125000 thousandths of a cent).
C25_ExampleValue ==
    ( /\ val.pc = "done"
      /\ val.pool = "VU"
      /\ val.reserves = [reserve0 |-> 1000000, reserve1 |-> 500, totalSupply |-> 2000]
      /\ val.prices[1].price = 200
      /\ val.prices[2].price = 100
      /\ val.lpAmount = 1000 ) => val.depositUSD = 125000

\* C30: a reserves entry is in the cache only while it is younger than 10 s,
\* a price entry only while it is younger than 60 s; every entry is stored
\* with the TTL of its kind; a lookup that finds an entry returns it, and one
\* that finds none goes to the source.
C30_CacheTtl ==
    /\ [](\A pool \in Pools : Cached(ReservesKey(pool)) =>
                /\ redis[ReservesKey(pool)].ttl = 10
                /\ redis[ReservesKey(pool)].age < 10)
    /\ [](\A token \in Tokens : Cached(PriceKey(token)) =>
                /\ redis[PriceKey(token)].ttl = 60
                /\ redis[PriceKey(token)].age < 60)
    /\ [][val'.n # val.n =>
            IF Cached(ReservesKey(val'.pool))
            THEN val'.pc = "prices" /\ val'.reserves = redis[ReservesKey(val'.pool)].value
            ELSE val'.pc = "fetch"]_vars
    /\ [][\A i \in 1..2 : (val.prices[i].pc = "get" /\ val'.prices[i] # val.prices[i]) =>
            IF Cached(PriceKey(val.prices[i].token))
            THEN /\ val'.prices[i].pc = "done"
                 /\ val'.prices[i].price = redis[PriceKey(val.prices[i].token)].value
                 /\ redis' = redis
            ELSE \/ val'.prices[i].pc \in {"api", "reserves"}
                 \/ redis'[PriceKey(val.prices[i].token)] =
                        [value |-> val'.prices[i].price, age |-> 0, ttl |-> PRICE_TTL]]_vars
    /\ [][\A i \in 1..2 : (val.prices[i].pc \in {"api", "reserves", "fetch"}
                           /\ val'.prices[i].pc = "done") =>
            redis'[PriceKey(val.prices[i].token)] =
                [value |-> val'.prices[i].price, age |-> 0, ttl |-> PRICE_TTL]]_vars

\* the reserves were fetched again after their TTL while the Victory price,
\* stored before, was still served from the cache
C30_Witness ==
    /\ val.n = 2
    /\ val.pc = "prices"
    /\ Cached(ReservesKey(val.pool))
    /\ redis[ReservesKey(val.pool)].age = 0
    /\ \E i \in 1..2 : /\ val.prices[i].token = "VICTORY"
                       /\ val.prices[i].pc = "done"
                       /\ Cached(PriceKey("VICTORY"))
                       /\ redis[PriceKey("VICTORY")].age >= RESERVES_TTL
                       /\ val.prices[i].price = redis[PriceKey("VICTORY")].value


\* C24 (as amended): when calculateLPValue or addDeposit fails for an event,
\* handleStakeEvent stores no deposit, starts no updateLeaderboard call and
\* sends no alert, then or later in that invocation; the leaderboard stays as
\* it is; the poll cycle goes on as after any callback; and the event is not
\* handed to the callback again while its digest stays in seenEvents (at most
\* once more per eviction of the digest).
C24_FailedEventDropped ==
    /\ [][lost' # lost =>
            /\ hs'.pc = "failed"
            /\ deposits' = deposits
            /\ leaderboard' = leaderboard
            /\ lbCall' = lbCall
            /\ lbCalls' = lbCalls
            /\ alerts' = alerts
            /\ poll' = poll
            /\ isPolling' = isPolling
            /\ lastOutcome' = lastOutcome]_vars
    /\ [][hs.pc = "failed" =>
            /\ deposits' = deposits
            /\ leaderboard' = leaderboard
            /\ lbCalls' = lbCalls
            /\ alerts' = alerts
            /\ lastOutcome' # "error"]_vars
    /\ [][calls' # calls =>
            calls'[Len(calls')].txDigest \notin {d \in lost : Has(seenEvents, d)}]_vars
    /\ [](\A d \in lost : CallCount(d) <= 1 + EvictCount(d))

\* the deposit failed in handleStakeEvent while a competition was active, a
\* later fetch returned it again, and the cycle completed without a retry
C24_Witness ==
    /\ TheDeposit.txDigest \in lost
    /\ ActiveCompetitions # {}
    /\ returned = 2
    /\ CallCount(TheDeposit.txDigest) = 1
    /\ evicted = <<>>
    /\ lastOutcome = "done"
    /\ hs.pc = "idle"

\* C24 (as claimed): an event whose valuation or addDeposit failed is never
\* handed to the callback again.
C24_NeverRetried ==
    [][calls' # calls => calls'[Len(calls')].txDigest \notin lost]_vars


\* C31: a poll cycle that has taken the re-entrancy guard releases it, on
\* every way out; after a suppressed tick a later tick starts a cycle, and
\* every cycle that starts runs to its end.
C31_GuardReleased ==
    /\ (isPolling ~> ~isPolling)
    /\ (cyc.suppressed ~> (lastOutcome = "running" /\ ~cyc.suppressed))
    /\ (lastOutcome = "running" ~> lastOutcome \in {"empty", "done", "error"})

\* a tick was suppressed while the cycle in flight awaited a callback
C31_Witness ==
    /\ cyc.suppressed
    /\ isPolling
    /\ InCallback # {}


\* C32: every tracked-pool event stamped after botStartTime whose digest is
\* in seenEvents has been handed to the onStake callback exactly once; in
\* particular an event fetched by initializeSeenEvents.
C32_NoPostStartEventSwallowed ==
    \A e \in SmallEvents \cup initFetched :
        ( /\ isTargetPool(e.pool_type)
          /\ e.timestampMs > botStartTime
          /\ Has(seenEvents, e.txDigest) )
        => Cardinality({i \in 1..Len(calls) : calls[i] = e}) = 1

\* C33: when a poll cycle completes, every post-start tracked-pool event of
\* its window whose digest was not in seenEvents before the cycle has been
\* handed to the onStake callback during the cycle, events that share their
\* txDigest with another event of the window included.
C33_EveryEventOfATransactionEmitted ==
    [][\A s \in Slots :
          (poll[s].pc = "callback" /\ poll'[s].pc = "idle" /\ lastOutcome' = "done") =>
              \A k \in 1..Len(poll[s].batch) :
                  ( /\ isTargetPool(poll[s].batch[k].pool_type)
                    /\ poll[s].batch[k].timestampMs > botStartTime
                    /\ poll[s].batch[k].txDigest \notin cyc.preSeen )
                  => \E j \in (cyc.base + 1)..Len(calls') : calls'[j] = poll[s].batch[k]]_vars


\* C34: seenEvents holds at most 1000 digests whenever no poll cycle is in
\* flight, and at most 1000 + 50 at any time.
C34_SeenSetBounded ==
    /\ Size(seenEvents) <= 1000 + 50
    /\ (Busy = {} => Size(seenEvents) <= 1000)

\* a cycle awaits a callback with more than 1000 digests in seenEvents
C34_Witness ==
    /\ InCallback # {}
    /\ Size(seenEvents) > SEEN_CAP


\* C35: once a competition is ENDED its status and its saved winners never
\* change again, whichever of checkCompetitionEnd, stopCompetition and
\* manualResetLeaderboard are under way.
C35_EndedOnce ==
    [][\A i \in 1..Len(competitions) :
          competitions[i].status = "ENDED" =>
              /\ competitions'[i].status = "ENDED"
              /\ competitions'[i].winners = competitions[i].winners]_vars


\* C36: once processCompetitionEnd has set a competition to ENDED (no
\* /addstake for it being under way), the leaderboard entries of that
\* competition are eventually deleted, whether or not the export and the
\* sends after endCompetition succeed.
C36_EndedLeaderboardCleared ==
    \A n \in 1..Len(CompIds) :
        (ender.pc = "announce" /\ ender.competitionId = CompIds[n] /\ adder.pc = "idle")
            ~> (CompetitionEntries(CompIds[n]) = {})


\* C37: every step of manualResetLeaderboard leaves the competitions (status
\* and winners) and the deposits as they are; the only thing it changes is
\* the leaderboard, by deleting the entries of the competition it read.
C37_ResetOnlyClearsLeaderboard ==
    [][(ender.kind = "reset" /\ ender' # ender) =>
            /\ competitions' = competitions
            /\ deposits' = deposits
            /\ leaderboard' \in {leaderboard, DeleteMany(leaderboard, ender.competitionId)}]_vars


\* C38: the winners saved with an ENDED competition are at most as many as
\* there are prizes (5); the i-th has rank i, a total no lower than the
\* next one's, and the prize PRIZES[i].
C38_WinnersWithinPrizes ==
    \A c \in 1..Len(competitions) :
        competitions[c].status = "ENDED" =>
            LET winners == competitions[c].winners
            IN  /\ Len(winners) <= Len(PRIZES)
                /\ \A i \in 1..Len(winners) :
                        /\ winners[i].rank = i
                        /\ i <= Len(PRIZES)
                        /\ winners[i].prize = PRIZES[i]
                        /\ i < Len(winners) => winners[i].totalUSD >= winners[i + 1].totalUSD


\* C39: only finite valuations at or above the floor are recorded: every
\* stored deposit has a finite usdValue of at least MIN_DEPOSIT_USD and every
\* leaderboard total is finite (a reserve snapshot with totalSupply = 0 gives
\* a valuation that is not finite).
C39_OnlyFiniteValuationsRecorded ==
    /\ \A i \in 1..Len(deposits) :
            IsFinite(deposits[i].usdValue) /\ deposits[i].usdValue >= MIN_DEPOSIT_USD
    /\ \A i \in 1..Len(leaderboard) : IsFinite(leaderboard[i].totalUSD)

====
